---- MODULE Spec2Model ----
(***************************************************************************)
(* Aggregation-and-enforcement engine of valhallabot.                      *)
(*                                                                         *)
(* The model covers the persisted quota state (local_users, agents,        *)
(* local_user_panel_links, panels.usage_multiplier), the usage            *)
(* synchronisation loop of scripts/usage_sync.py, the subscriber and agent *)
(* state machines it drives, the link-request handler unified_links of     *)
(* api/subscription_aggregator/flask_app.py, and the operator actions of   *)
(* bot.py and services/quotas.py that edit the persisted state.            *)
(*                                                                         *)
(* One owner (an agent with one agents row) owns every subscriber.  Remote *)
(* panels are the environment: a GetUser reading is drawn from a small set *)
(* and every Disable/Enable call issued by a step is recorded in step.calls.*)
(***************************************************************************)
EXTENDS Integers, Sequences, FiniteSets, TLC

\* ---------------------------------------------------------------- bounds
\* Byte counters, limits and remote readings range over 0..MaxBytes.
MaxBytes == 2
\* The clock and expiry instants range over 0..MaxTime.
MaxTime == 1

\* ------------------------------------------------------------ the universe
Users == {"u1", "u2"}
Panels == {"p1", "p2"}
\* Rows come back from MySQL in primary-key order; the model fixes that order.
PanelOrder == <<"p1", "p2">>
UserOrder == <<"u1", "u2">>
\* panels.telegram_user_id = owner: what list_all_panels returns.
OwnerPanels == {"p1", "p2"}
\* agent_panels rows of the owner: what list_agent_assigned_panels returns.
AssignedPanels == {"p2"}

NoExpiry == -1
ExpireVals == {NoExpiry} \cup (0..MaxTime)
Bit == {0, 1}
ByteVals == 0..MaxBytes
\* usage_multiplier as stored, in halves: NoMult is SQL NULL, -1 is -0.5,
\* 0 is 0.0, 1 is 0.5, 2 is 1.0, 3 is 1.5, 4 is 2.0.
NoMult == -9
MultVals == {NoMult, -1, 0, 1, 2, 3, 4}

VARIABLES
    lu,     \* local_users rows, by username
    ag,     \* the owner's agents row
    links,  \* local_user_panel_links: <<username, panel>> -> last_used_traffic
    mult,   \* panels.usage_multiplier, by panel
    now,    \* the clock (datetime.utcnow())
    tick,   \* position of the usage-sync loop inside its current tick
    step    \* what the last step was and which remote calls it issued

vars == <<lu, ag, links, mult, now, tick, step>>

LuRow == [present : BOOLEAN, plan_limit_bytes : ByteVals, used_bytes : ByteVals,
          expire_at : ExpireVals, manual_disabled : Bit, disabled_pushed : Bit,
          usage_limit_notified : Bit, expire_limit_notified : Bit]

AgRow == [plan_limit_bytes : ByteVals, total_used_bytes : ByteVals,
          expire_at : ExpireVals, active : Bit, disabled_pushed : Bit]

\* ------------------------------------------------------------ pure helpers
\* exp and exp <= datetime.utcnow()
Expired(e, t) == e # NoExpiry /\ e <= t

\* limit > 0 and used >= limit
OverLimit(limit, used) == limit > 0 /\ used >= limit

\* The sequence of the members of ps, in PanelOrder.
PanelSeq(ps) == SelectSeq(PanelOrder, LAMBDA p : p \in ps)

\* list_links_of_local_user / list_mapped_links: the panels mapped to u.
LinksOf(lk, u) == {p \in Panels : <<u, p>> \in DOMAIN lk}

Call(o, u, p, via) == [op |-> o, u |-> u, p |-> p, via |-> via]

\* One remote call per panel of ps, in row order.  via tells which remote
\* identity is used: "link" the mapped remote_username, "owner" the local
\* username on a panel of the owner, "assigned" the local username on a
\* panel assigned to the agent.
CallsOn(o, u, ps, via) ==
    LET s == PanelSeq(ps) IN [i \in 1..Len(s) |-> Call(o, u, s[i], via)]

RECURSIVE Concat(_)
Concat(ss) == IF ss = <<>> THEN <<>> ELSE Head(ss) \o Concat(Tail(ss))

\* ------------------------------------------------- persisted-row updates
\* Faulty variant of mark_user_disabled: the UPDATE is left out, so the row
\* keeps disabled_pushed = 0 after the Disable broadcast.
mark_user_disabled_unrecorded(l, u) == l

\* UPDATE local_users SET disabled_pushed=1 WHERE owner_id=.. AND username=..
mark_user_disabled(l, u) ==
    IF l[u].present THEN [l EXCEPT ![u].disabled_pushed = 1] ELSE l

\* UPDATE local_users SET disabled_pushed=0 WHERE owner_id=.. AND username=..
mark_user_enabled(l, u) ==
    IF l[u].present THEN [l EXCEPT ![u].disabled_pushed = 0] ELSE l

mark_usage_limit_notified(l, u) ==
    IF l[u].present THEN [l EXCEPT ![u].usage_limit_notified = 1] ELSE l

mark_expire_limit_notified(l, u) ==
    IF l[u].present THEN [l EXCEPT ![u].expire_limit_notified = 1] ELSE l

\* UPDATE local_users SET disabled_pushed=1 WHERE owner_id=..
mark_all_users_disabled(l) ==
    [u \in Users |-> IF l[u].present THEN [l[u] EXCEPT !.disabled_pushed = 1] ELSE l[u]]

\* UPDATE local_users SET disabled_pushed=0 WHERE owner_id=.. AND manual_disabled=0
mark_all_users_enabled(l) ==
    [u \in Users |-> IF l[u].present /\ l[u].manual_disabled = 0
                     THEN [l[u] EXCEPT !.disabled_pushed = 0] ELSE l[u]]

\* Faulty variant of mark_agent_disabled: the UPDATE is left out.
mark_agent_disabled_unrecorded(a) == a

mark_agent_disabled(a) == [a EXCEPT !.disabled_pushed = 1]
mark_agent_enabled(a) == [a EXCEPT !.disabled_pushed = 0]

\* ------------------------------------ subscriber state machine, sync side
\* An evaluator maps the rows it reads to the rows it leaves, the remote
\* calls it issued (in order) and the notifications it sent.
NoEffect(l) == [lu |-> l, calls |-> <<>>, notes |-> <<>>]

\* usage_sync.try_disable_if_user_exceeded
try_disable_if_user_exceeded(l, lk, u) ==
    LET r == l[u]
        over == OverLimit(r.plan_limit_bytes, r.used_bytes)
        notify == over /\ r.usage_limit_notified = 0
        push == over /\ r.disabled_pushed = 0
        l1 == IF notify THEN mark_usage_limit_notified(l, u) ELSE l
        l2 == IF push THEN mark_user_disabled(l1, u) ELSE l1
    IN  IF ~r.present THEN NoEffect(l)
        ELSE IF r.manual_disabled = 1 THEN NoEffect(l)
        ELSE [lu |-> l2,
              calls |-> IF push THEN CallsOn("Disable", u, LinksOf(lk, u), "link") ELSE <<>>,
              notes |-> IF notify THEN <<[kind |-> "usage", u |-> u]>> ELSE <<>>]

\* The condition under which usage_sync.try_enable_if_user_ok re-enables:
\* pushed and (limit == 0 or used < limit).
SyncEnableCondition(r) ==
    r.disabled_pushed = 1 /\ (r.plan_limit_bytes = 0 \/ r.used_bytes < r.plan_limit_bytes)

\* Faulty variant of try_enable_if_user_ok: the manual_disabled test is left
\* out.
try_enable_if_user_ok_unguarded(l, lk, u) ==
    LET r == l[u] IN
    IF ~r.present THEN NoEffect(l)
    ELSE IF SyncEnableCondition(r)
         THEN [lu |-> mark_user_enabled(l, u),
               calls |-> CallsOn("Enable", u, LinksOf(lk, u), "link"),
               notes |-> <<>>]
         ELSE NoEffect(l)

\* usage_sync.try_enable_if_user_ok
try_enable_if_user_ok(l, lk, u) ==
    LET r == l[u] IN
    IF ~r.present THEN NoEffect(l)
    ELSE IF r.manual_disabled = 1 THEN NoEffect(l)
    ELSE IF SyncEnableCondition(r)
         THEN [lu |-> mark_user_enabled(l, u),
               calls |-> CallsOn("Enable", u, LinksOf(lk, u), "link"),
               notes |-> <<>>]
         ELSE NoEffect(l)

\* The subscriber evaluation of one sync-loop iteration:
\* try_disable_if_user_exceeded followed by try_enable_if_user_ok.
SyncEvaluateUser(l, lk, u) ==
    LET d == try_disable_if_user_exceeded(l, lk, u)
        e == try_enable_if_user_ok(d.lu, lk, u)
    IN  [lu |-> e.lu, calls |-> d.calls \o e.calls, notes |-> d.notes \o e.notes]

\* ----------------------------------------- agent state machine, sync side
NoAgentEffect(l, a) == [lu |-> l, ag |-> a, calls |-> <<>>, notes |-> <<>>]

\* list_all_local_users: the owner's subscriber rows, in row order.
list_all_local_users(l) == SelectSeq(UserOrder, LAMBDA u : l[u].present)

\* expired or over_limit, as both agent evaluators of usage_sync compute it
\* (total_used_by_owner reads agents.total_used_bytes).
AgentBlocked(a, t) ==
    Expired(a.expire_at, t) \/ OverLimit(a.plan_limit_bytes, a.total_used_bytes)

\* The remote calls of one agent broadcast to subscriber u: its mapped
\* links, then the panels assigned to the agent under the local username.
AgentCallsFor(o, lk, u) ==
    CallsOn(o, u, LinksOf(lk, u), "link") \o CallsOn(o, u, AssignedPanels, "assigned")

\* usage_sync.try_disable_agent_if_exceeded
try_disable_agent_if_exceeded(l, a, lk, t) ==
    IF a.active = 0 THEN NoAgentEffect(l, a)
    ELSE IF AgentBlocked(a, t) /\ a.disabled_pushed = 0
         THEN LET us == list_all_local_users(l) IN
              [lu |-> mark_all_users_disabled(l),
               ag |-> mark_agent_disabled(a),
               calls |-> Concat([i \in 1..Len(us) |-> AgentCallsFor("Disable", lk, us[i])]),
               notes |-> <<>>]
         ELSE NoAgentEffect(l, a)

\* Faulty variant of AgentEnableTargets: manual_disabled rows are not
\* skipped.
AgentEnableTargets_unfiltered(l) == list_all_local_users(l)

\* The subscribers try_enable_agent_if_ok sends Enable for.
AgentEnableTargets(l) ==
    SelectSeq(list_all_local_users(l), LAMBDA u : l[u].manual_disabled = 0)

\* usage_sync.try_enable_agent_if_ok
try_enable_agent_if_ok(l, a, lk, t) ==
    IF a.active = 0 THEN NoAgentEffect(l, a)
    ELSE IF a.disabled_pushed = 0 THEN NoAgentEffect(l, a)
    ELSE IF ~AgentBlocked(a, t)
         THEN LET us == AgentEnableTargets(l) IN
              [lu |-> mark_all_users_enabled(l),
               ag |-> mark_agent_enabled(a),
               calls |-> Concat([i \in 1..Len(us) |-> AgentCallsFor("Enable", lk, us[i])]),
               notes |-> <<>>]
         ELSE NoAgentEffect(l, a)

\* try_disable_agent_if_exceeded followed by try_enable_agent_if_ok, as
\* sync_agent_now and the end of a tick run them.
SyncEvaluateAgent(l, a, lk, t) ==
    LET d == try_disable_agent_if_exceeded(l, a, lk, t)
        e == try_enable_agent_if_ok(d.lu, d.ag, lk, t)
    IN  [lu |-> e.lu, ag |-> e.ag, calls |-> d.calls \o e.calls, notes |-> <<>>]

\* ------------------------------------------------------- usage accounting
\* float(row.get("usage_multiplier") or 1.0), then 1.0 if negative; in halves.
EffectiveMultiplier(m) ==
    IF m = NoMult \/ m = 0 THEN 2
    ELSE IF m < 0 THEN 2
    ELSE m

\* Python's round() of h/2: to nearest, ties to the even integer.
RoundHalves(h) ==
    LET q == h \div 2 IN
    IF h % 2 = 0 THEN q
    ELSE IF q % 2 = 0 THEN q ELSE q + 1

\* weighted_delta = int(round(delta * multiplier))
weighted_delta(delta, m) == RoundHalves(delta * EffectiveMultiplier(m))

\* Stand-in for 18446744073709551615, the ceiling of LEAST(..) in add_usage:
\* above every sum the guarded model forms.
CounterCeiling == 4 * MaxBytes + 1

Least(a, b) == IF a <= b THEN a ELSE b

\* Faulty variant of add_usage: the counters are overwritten with the delta
\* instead of incremented by it.
add_usage_overwrite(l, a, u, delta) ==
    IF delta <= 0 THEN [lu |-> l, ag |-> a]
    ELSE [lu |-> IF l[u].present
                 THEN [l EXCEPT ![u].used_bytes = Least(delta, CounterCeiling)]
                 ELSE l,
          ag |-> [a EXCEPT !.total_used_bytes = Least(delta, CounterCeiling)]]

\* usage_sync.add_usage: both UPDATEs, in one transaction.
add_usage(l, a, u, delta) ==
    IF delta <= 0 THEN [lu |-> l, ag |-> a]
    ELSE [lu |-> IF l[u].present
                 THEN [l EXCEPT ![u].used_bytes = Least(@ + delta, CounterCeiling)]
                 ELSE l,
          ag |-> [a EXCEPT !.total_used_bytes = Least(@ + delta, CounterCeiling)]]

\* Faulty variant of update_last: the baseline is never lowered.
update_last_raise_only(lk, key, new_used) ==
    IF key \in DOMAIN lk /\ new_used > lk[key] THEN [lk EXCEPT ![key] = new_used] ELSE lk

\* usage_sync.update_last
update_last(lk, key, new_used) ==
    IF key \in DOMAIN lk THEN [lk EXCEPT ![key] = new_used] ELSE lk

\* ------------------------------------------- link request (unified_links)
\* local_user_panel_links rows in primary-key order.
LinkOrder == <<<<"u1", "p1">>, <<"u1", "p2">>, <<"u2", "p1">>, <<"u2", "p2">>>>

LinkRows(lk) == SelectSeq(LinkOrder, LAMBDA k : k \in DOMAIN lk)

\* list_all_agent_links, each row turned into the Disable call the agent
\* gate issues for it.
AgentGateCalls(lk) ==
    LET rows == LinkRows(lk)
    IN  [i \in 1..Len(rows) |-> Call("Disable", rows[i][1], rows[i][2], "link")]

\* links = list_mapped_links(..); if not links: every panel of the owner,
\* with the local username as remote identity.
ResolveCalls(o, lk, u) ==
    IF LinksOf(lk, u) # {} THEN CallsOn(o, u, LinksOf(lk, u), "link")
    ELSE CallsOn(o, u, OwnerPanels, "owner")

\* Faulty variant of FetchTargets: the panels of the owner are added to the
\* mapped ones instead of standing in for them.
FetchTargets_merged(lk, u) ==
    {<<p, "link">> : p \in LinksOf(lk, u)}
        \cup {<<p, "owner">> : p \in OwnerPanels \ LinksOf(lk, u)}

\* The mappings handed to collect_links: <<panel, remote identity kind>>.
FetchTargets(lk, u) ==
    IF LinksOf(lk, u) # {} THEN {<<p, "link">> : p \in LinksOf(lk, u)}
    ELSE {<<p, "owner">> : p \in OwnerPanels}

\* Faulty variant of GateBlocked: the agent gate is left out.
GateBlocked_never(a, t) == FALSE

\* flask_app.get_agent selects the row only WHERE active=1; with the row in
\* hand the gate blocks when the agent is expired or over its limit.
GateBlocked(a, t) == a.active = 1 /\ AgentBlocked(a, t)

\* The agent gate of unified_links (lines 929-951): the calls it issues and
\* the agents row it leaves.  It writes no local_users row.
AgentGate(a, lk, t) ==
    IF GateBlocked(a, t) /\ a.disabled_pushed = 0
    THEN [ag |-> mark_agent_disabled(a), calls |-> AgentGateCalls(lk)]
    ELSE [ag |-> a, calls |-> <<>>]

\* unified_links(local_username = u, want_html = html).  r is the
\* local_users row read once at the start; every later test uses that copy.
\* remaining = (limit - used) if limit > 0 else -1, sent as "unlimited"
Unlimited == -1

\* The X-Plan-Limit-Bytes, X-Used-Bytes, X-Remaining-Bytes and
\* X-Disabled-Pushed headers of a response, a sequence of no or one record.
NoHeaders == <<>>

XHeaders(limit, used, remaining, pushed) ==
    <<[plan_limit_bytes |-> limit, used_bytes |-> used,
       remaining_bytes |-> remaining, disabled_pushed |-> pushed]>>

unified_links(l, a, lk, t, u, html) ==
    LET r == l[u]
        gate == AgentGate(a, lk, t)
        agent_blocked == GateBlocked(a, t)
        manual == r.manual_disabled = 1
        expired == ~manual /\ Expired(r.expire_at, t)
        over == ~manual /\ OverLimit(r.plan_limit_bytes, r.used_bytes)
        unpushed == r.disabled_pushed = 0
        \* the point at which a plain-text request returns
        stop == IF agent_blocked /\ ~html THEN "agent"
                ELSE IF manual /\ ~html THEN "manual"
                ELSE IF expired /\ ~html THEN "expired"
                ELSE IF over /\ ~html THEN "limit"
                ELSE "end"
        reachUser == stop # "agent"
        reachLimit == stop \in {"limit", "end"}
        pushM == reachUser /\ manual /\ unpushed
        pushE == reachUser /\ expired /\ unpushed
        pushU == reachLimit /\ over /\ unpushed
        noteE == reachUser /\ expired /\ r.expire_limit_notified = 0
        noteU == reachLimit /\ over /\ r.usage_limit_notified = 0
        l1 == IF noteE THEN mark_expire_limit_notified(l, u) ELSE l
        l2 == IF noteU THEN mark_usage_limit_notified(l1, u) ELSE l1
        l3 == IF pushM \/ pushE \/ pushU THEN mark_user_disabled(l2, u) ELSE l2
        fetches == stop = "end" /\ ~agent_blocked /\ ~over /\ ~manual
    IN  IF ~r.present
        THEN [lu |-> l, ag |-> a, calls |-> <<>>, notes |-> <<>>,
              body |-> IF html THEN "error_html" ELSE "empty", fetch |-> {},
              stop |-> "not_found", status |-> IF html THEN 404 ELSE 200,
              headers |-> NoHeaders]
        ELSE [lu |-> IF reachUser THEN l3 ELSE l,
              ag |-> gate.ag,
              calls |-> gate.calls
                        \o (IF pushM THEN ResolveCalls("Disable", lk, u) ELSE <<>>)
                        \o (IF pushE THEN ResolveCalls("Disable", lk, u) ELSE <<>>)
                        \o (IF pushU THEN ResolveCalls("Disable", lk, u) ELSE <<>>),
              notes |-> (IF noteE THEN <<[kind |-> "expire", u |-> u]>> ELSE <<>>)
                        \o (IF noteU THEN <<[kind |-> "usage", u |-> u]>> ELSE <<>>),
              body |-> IF html THEN "html"
                       ELSE IF stop = "limit" THEN "limit_config"
                       ELSE IF stop = "end" THEN "links"
                       ELSE "empty",
              fetch |-> IF fetches THEN FetchTargets(lk, u) ELSE {},
              stop |-> stop,
              status |-> 200,
              headers |-> IF html THEN NoHeaders
                          ELSE IF stop = "limit"
                          THEN XHeaders(r.plan_limit_bytes, r.used_bytes, 0, 1)
                          ELSE IF stop = "end"
                          THEN XHeaders(r.plan_limit_bytes, r.used_bytes,
                                        IF r.plan_limit_bytes > 0
                                        THEN r.plan_limit_bytes - r.used_bytes
                                        ELSE Unlimited,
                                        r.disabled_pushed)
                          ELSE NoHeaders]

\* ------------------------------------------------------------- the steps
NoReading == -1

\* What a step records: the operation, the subscriber it evaluated ("-" when
\* it evaluated none; with want_html for a link request), the input that decided it (the reading of
\* a tick iteration, the new limit of set_agent_quota) and the remote
\* Disable/Enable calls it issued, in order.
StepOf(o, u, html, arg, calls) ==
    [op |-> o, u |-> u, html |-> html, arg |-> arg, calls |-> calls]

Idle == [pc |-> "idle", queue |-> <<>>, seen |-> FALSE]

\* fetch_all_links: every link row joined with its panel, ORDER BY lup.id.
fetch_all_links(lk, mu) ==
    LET rows == LinkRows(lk)
    IN  [i \in 1..Len(rows) |->
            [u |-> rows[i][1], p |-> rows[i][2],
             last_used_traffic |-> lk[rows[i]], usage_multiplier |-> mu[rows[i][2]]]]

\* loop(), line 539: a tick starts by reading all link rows.
TickBegin ==
    /\ tick.pc = "idle"
    /\ LET rows == fetch_all_links(links, mult) IN
       tick' = [pc |-> IF rows = <<>> THEN "agents" ELSE "links",
                queue |-> rows, seen |-> FALSE]
    /\ step' = StepOf("tick_begin", "-", FALSE, 0, <<>>)
    /\ UNCHANGED <<lu, ag, links, mult, now>>

\* delta = used - last, for a reading that is not below the baseline.
raw_delta(used, last) == used - last

\* loop(), lines 541-575: one iteration over a link row with the reading
\* fetch_used_traffic returned for it (NoReading: the call failed).
TickLinkEffect(l, a, lk, row, used) ==
    LET key == <<row.u, row.p>>
        last == row.last_used_traffic
        delta == raw_delta(used, last)
        wd == weighted_delta(delta, row.usage_multiplier)
        acc == IF delta > 0 THEN add_usage(l, a, row.u, wd) ELSE [lu |-> l, ag |-> a]
        ev == SyncEvaluateUser(acc.lu, lk, row.u)
    IN  IF used = NoReading
        THEN [lu |-> l, ag |-> a, links |-> lk, calls |-> <<>>, notes |-> <<>>,
              seen |-> FALSE]
        ELSE IF used < last
        THEN [lu |-> l, ag |-> a, links |-> update_last(lk, key, used),
              calls |-> <<>>, notes |-> <<>>, seen |-> FALSE]
        ELSE [lu |-> ev.lu, ag |-> acc.ag,
              links |-> IF delta > 0 THEN update_last(lk, key, used) ELSE lk,
              calls |-> ev.calls, notes |-> ev.notes, seen |-> TRUE]

TickLink ==
    /\ tick.pc = "links"
    /\ tick.queue # <<>>
    /\ \E used \in {NoReading} \cup ByteVals :
          LET row == Head(tick.queue)
              e == TickLinkEffect(lu, ag, links, row, used)
              rest == Tail(tick.queue)
          IN  /\ \A u \in Users : e.lu[u].used_bytes <= MaxBytes
              /\ e.ag.total_used_bytes <= MaxBytes
              /\ lu' = e.lu
              /\ ag' = e.ag
              /\ links' = e.links
              /\ tick' = [pc |-> IF rest = <<>> THEN "agents" ELSE "links",
                          queue |-> rest, seen |-> tick.seen \/ e.seen]
              /\ step' = StepOf("tick_link", IF e.seen THEN row.u ELSE "-",
                                FALSE, used, e.calls)
    /\ UNCHANGED <<mult, now>>

\* loop(), lines 578-580: the agent evaluation for every owner seen in the
\* tick, then the tick is over.
TickAgents ==
    /\ tick.pc = "agents"
    /\ LET e == IF tick.seen THEN SyncEvaluateAgent(lu, ag, links, now)
                ELSE NoAgentEffect(lu, ag)
       IN  /\ lu' = e.lu
           /\ ag' = e.ag
           /\ step' = StepOf("tick_agents", "-", FALSE, 0, e.calls)
    /\ tick' = Idle
    /\ UNCHANGED <<links, mult, now>>

\* GET /sub/<u>/<key>/links, plain text or HTML.
LinkRequest ==
    \E u \in Users, html \in BOOLEAN :
        LET e == unified_links(lu, ag, links, now, u, html) IN
        /\ lu' = e.lu
        /\ ag' = e.ag
        /\ step' = [op |-> "link_request", u |-> u, html |-> html, arg |-> 0,
                    calls |-> e.calls, fetch |-> e.fetch, stop |-> e.stop,
                    status |-> e.status, body |-> e.body, headers |-> e.headers]
        /\ UNCHANGED <<links, mult, now, tick>>

\* ------------------------------------------------------ operator actions
\* not manual_disabled and not expired and (limit == 0 or used < limit):
\* the test under which bot.py clears disabled_pushed and sends Enable.
ShouldEnable(r, limit, t) ==
    r.manual_disabled = 0 /\ ~Expired(r.expire_at, t)
    /\ (limit = 0 \/ r.used_bytes < limit)

\* bot.update_limit
update_limit(l, lk, t, u, new_limit) ==
    LET r == l[u]
        en == ShouldEnable(r, new_limit, t)
        l1 == [l EXCEPT ![u].plan_limit_bytes = new_limit,
                        ![u].usage_limit_notified = 0]
    IN  IF ~r.present THEN NoEffect(l)
        ELSE [lu |-> IF en THEN mark_user_enabled(l1, u) ELSE l1,
              calls |-> IF en THEN CallsOn("Enable", u, LinksOf(lk, u), "link") ELSE <<>>,
              notes |-> <<>>]

UpdateLimit ==
    \E u \in Users, v \in ByteVals :
        LET e == update_limit(lu, links, now, u, v) IN
        /\ lu[u].present
        /\ lu' = e.lu
        /\ step' = StepOf("update_limit", "-", FALSE, 0, <<>>)
        /\ UNCHANGED <<ag, links, mult, now, tick>>

\* bot.set_user_disabled
set_user_disabled(l, lk, t, u, disabled) ==
    LET r == l[u]
        should_enable == ~disabled /\ ~Expired(r.expire_at, t)
                         /\ ~OverLimit(r.plan_limit_bytes, r.used_bytes)
        manual_flag == IF disabled THEN 1 ELSE 0
        pushed_flag == IF disabled THEN 1 ELSE IF should_enable THEN 0 ELSE 1
    IN  IF ~r.present THEN NoEffect(l)
        ELSE [lu |-> [l EXCEPT ![u].manual_disabled = manual_flag,
                               ![u].disabled_pushed = pushed_flag],
              calls |-> CallsOn(IF should_enable THEN "Enable" ELSE "Disable",
                                u, LinksOf(lk, u), "link"),
              notes |-> <<>>]

SetUserDisabled ==
    \E u \in Users, d \in BOOLEAN :
        LET e == set_user_disabled(lu, links, now, u, d) IN
        /\ lu[u].present
        /\ lu' = e.lu
        /\ step' = StepOf("set_user_disabled", u, FALSE, 0, e.calls)
        /\ UNCHANGED <<ag, links, mult, now, tick>>

\* bot.reset_used: the counter and the notification flag; no flag of the
\* state machine and no agents row is written.
reset_used(l, u) ==
    IF l[u].present
    THEN [l EXCEPT ![u].used_bytes = 0, ![u].usage_limit_notified = 0]
    ELSE l

ResetUsed ==
    \E u \in Users :
        /\ lu[u].present
        /\ lu[u].used_bytes > 0
        /\ lu' = reset_used(lu, u)
        /\ step' = StepOf("reset_used", "-", FALSE, 0, <<>>)
        /\ UNCHANGED <<ag, links, mult, now, tick>>

\* expire_at = IF(expire_at IS NULL, UTC_TIMESTAMP() + d, expire_at + d)
Renewed(e, t, d) == IF e = NoExpiry THEN t + d ELSE e + d

\* bot.renew_user
renew_user(l, lk, t, u, days) ==
    LET l1 == [l EXCEPT ![u].expire_at = Renewed(@, t, days),
                        ![u].expire_limit_notified = 0]
        r == l1[u]
        en == ShouldEnable(r, r.plan_limit_bytes, t)
    IN  IF ~l[u].present THEN NoEffect(l)
        ELSE [lu |-> IF en THEN mark_user_enabled(l1, u) ELSE l1,
              calls |-> IF en THEN CallsOn("Enable", u, LinksOf(lk, u), "link") ELSE <<>>,
              notes |-> <<>>]

RenewUser ==
    \E u \in Users, d \in 1..MaxTime :
        LET e == renew_user(lu, links, now, u, d) IN
        /\ lu[u].present
        /\ Renewed(lu[u].expire_at, now, d) <= MaxTime
        /\ lu' = e.lu
        /\ step' = StepOf("renew_user", "-", FALSE, 0, <<>>)
        /\ UNCHANGED <<ag, links, mult, now, tick>>

\* Faulty variant of sync_user_panels: panels are added for a subscriber
\* whose disabled_pushed flag is set.
sync_user_panels_unguarded(l, lk, u, selected) ==
    LET current == LinksOf(lk, u)
        keep == current \cap selected
        added == (selected \cap AssignedPanels) \ current
    IN  IF ~l[u].present
        THEN [k \in {k \in DOMAIN lk : k[1] # u} |-> lk[k]]
        ELSE [k \in {k \in DOMAIN lk : k[1] # u} \cup {<<u, p>> : p \in keep \cup added}
                 |-> IF k \in DOMAIN lk THEN lk[k] ELSE 0]

\* bot.sync_user_panels: the link rows it leaves.  A missing subscriber
\* loses its stale links; otherwise panels no longer selected are unlinked
\* and, only when the subscriber's disabled_pushed flag is clear, every
\* selected panel the agent may use gets a link (last_used_traffic 0).
sync_user_panels(l, lk, u, selected) ==
    LET current == LinksOf(lk, u)
        keep == current \cap selected
        is_disabled == l[u].disabled_pushed = 1
        added == IF is_disabled THEN {} ELSE (selected \cap AssignedPanels) \ current
    IN  IF ~l[u].present
        THEN [k \in {k \in DOMAIN lk : k[1] # u} |-> lk[k]]
        ELSE [k \in {k \in DOMAIN lk : k[1] # u} \cup {<<u, p>> : p \in keep \cup added}
                 |-> IF k \in DOMAIN lk THEN lk[k] ELSE 0]

\* sync_user_panels sends Enable only to a remote account it finds disabled
\* while the subscriber's flag is clear; remote_disabled is what it finds.
SyncUserPanels ==
    \E u \in Users, selected \in SUBSET Panels, remote_disabled \in BOOLEAN :
        /\ links' = sync_user_panels(lu, links, u, selected)
        /\ step' = StepOf("sync_user_panels", u, FALSE, 0,
                          IF lu[u].present /\ lu[u].disabled_pushed = 0 /\ remote_disabled
                          THEN CallsOn("Enable", u, selected \cap AssignedPanels, "link")
                          ELSE <<>>)
        /\ UNCHANGED <<lu, ag, mult, now, tick>>

\* quotas.set_agent_quota: the UPDATE, then usage_sync.sync_agent_now.
SetAgentQuota ==
    \E v \in ByteVals :
        LET a1 == [ag EXCEPT !.plan_limit_bytes = v]
            e == SyncEvaluateAgent(lu, a1, links, now)
        IN  /\ lu' = e.lu
            /\ ag' = e.ag
            /\ step' = StepOf("set_agent_quota", "-", FALSE, v, e.calls)
            /\ UNCHANGED <<links, mult, now, tick>>

\* quotas.renew_agent_days
RenewAgent ==
    \E d \in 1..MaxTime :
        /\ Renewed(ag.expire_at, now, d) <= MaxTime
        /\ ag' = [ag EXCEPT !.expire_at = Renewed(@, now, d)]
        /\ step' = StepOf("renew_agent_days", "-", FALSE, 0, <<>>)
        /\ UNCHANGED <<lu, links, mult, now, tick>>

\* quotas.set_agent_active
SetAgentActive ==
    \E b \in Bit :
        /\ ag.active # b
        /\ ag' = [ag EXCEPT !.active = b]
        /\ step' = StepOf("set_agent_active", "-", FALSE, 0, <<>>)
        /\ UNCHANGED <<lu, links, mult, now, tick>>

\* Time passes.
AdvanceClock ==
    /\ now < MaxTime
    /\ now' = now + 1
    /\ step' = StepOf("clock", "-", FALSE, 0, <<>>)
    /\ UNCHANGED <<lu, ag, links, mult, tick>>

\* ---------------------------------------------------------- link collector
\* A config name is a sequence of tokens separated by white space. A link is
\* [scheme, frag, name, body]: frag says whether the link has a '#' fragment;
\* name is the decoded fragment, or the "ps" entry of a vmess payload.
UsageTokens == {"150MB/500MB", "1.5GB/10GB"}
MarkerToken == "<user-marker>"
IdTokens == {"(abc123)"}

Without(nm, drop) == SelectSeq(nm, LAMBDA t : t \notin drop)

RECURSIVE UpTo(_, _)
UpTo(nm, stop) ==
    IF nm = <<>> \/ Head(nm) = stop THEN <<>>
    ELSE <<Head(nm)>> \o UpTo(Tail(nm), stop)

\* Stand-in for the 255 characters kept by canonicalize_name, in tokens.
NameCap == 4

canonicalize_name_keep_usage(nm) ==
    LET c == Without(UpTo(nm, MarkerToken), IdTokens)
    IN  SubSeq(c, 1, Least(Len(c), NameCap))

\* canonicalize_name: drop the usage annotations, cut at the user marker,
\* drop the parenthesised ids, collapse the white space, keep 255 characters.
canonicalize_name(nm) ==
    LET a == Without(nm, UsageTokens)
        b == UpTo(a, MarkerToken)
        c == Without(b, IdTokens)
    IN  SubSeq(c, 1, Least(Len(c), NameCap))

\* extract_name: the canonical fragment, "" when the link has none.
extract_name(x) == IF x.frag THEN canonicalize_name(x.name) ELSE <<>>

\* set_panel_disabled_names stores the canonical, non-empty names;
\* load_disabled_filters canonicalises them again when it reads them.
set_panel_disabled_names(names) ==
    {canonicalize_name(n) : n \in names} \ {<<>>}

load_disabled_names(stored) ==
    {canonicalize_name(n) : n \in stored} \ {<<>>}

\* f"{ratio:g}X" for a ratio in halves.
ratio_text(r) ==
    CASE r = -1 -> "-0.5X" [] r = 0 -> "0X" [] r = 1 -> "0.5X"
      [] r = 2 -> "1X" [] r = 3 -> "1.5X" [] OTHER -> "2X"

RATIO_NAME_SCHEMES == {"vless", "vmess", "ss"}

\* maybe_append_ratio_to_name(link, float(usage_multiplier or 1.0), enabled)
maybe_append_ratio_to_name(x, m, enabled) ==
    LET ratio == IF m = NoMult \/ m = 0 THEN 2 ELSE m IN
    IF enabled = 0 \/ ratio = 2 \/ x.scheme \notin RATIO_NAME_SCHEMES THEN x
    ELSE IF x.scheme # "vmess" /\ ~x.frag THEN x
    ELSE IF x.name # <<>> /\ x.name[Len(x.name)] = ratio_text(ratio) THEN x
    ELSE [x EXCEPT !.name = @ \o <<ratio_text(ratio)>>]

\* The vendor types a panels row can carry; any other value takes the
\* default branch like "marzneshin" and "marzban".
PanelTypes == {"marzneshin", "marzban", "rebecca", "pasarguard", "guardcore", "sanaei"}

\* What a panel does to the calls made to it during one collection: "up"
\* answers every call, "no_links" answers the user lookup and fails the
\* subscription fetch, "down" fails every call, "slow" lets every call run
\* into its timeout, "garbled" answers every call with status 200 and a
\* payload of another shape (a JSON array where an object is expected).
PanelConditions == {"up", "no_links", "down", "slow", "garbled"}

Outcome(cond, call) ==
    CASE cond = "up" -> "ok"
      [] cond = "no_links" -> IF call = "get_user" THEN "ok" ELSE "failed"
      [] cond = "down" -> "failed"
      [] cond = "slow" -> "timeout"
      [] OTHER -> "malformed"

\* The user object of a panel; dict is FALSE for a payload that is not a
\* JSON object.
UserInfo(l, rn) == [panel |-> l.panel_id, remote |-> rn, key |-> "key", dict |-> TRUE]

Garbled(l, rn) == [panel |-> l.panel_id, remote |-> rn, key |-> "", dict |-> FALSE]

ErrorString(l, rn, msg) == [panel |-> l.panel_id, remote |-> rn, msg |-> msg]

\* The links the panel serves to the identity rn.
Subscription(l, rn) ==
    [i \in 1..Len(l.served) |->
        [scheme |-> l.served[i].scheme, frag |-> l.served[i].frag,
         name |-> l.served[i].name, body |-> <<l.panel_id, rn, i>>]]

\* get_user of the marzban and sanaei modules: (user, None) or (None, error).
marzban_get_user(l, rn) ==
    LET o == Outcome(l.cond, "get_user") IN
    IF o = "ok" THEN [u |-> <<UserInfo(l, rn)>>, err |-> <<>>]
    ELSE [u |-> <<>>, err |-> <<o>>]

\* get_user of pasarguard and guardcore: (r.json(), None) on status 200,
\* whatever the payload, (None, error) otherwise.
get_user(l, rn) ==
    LET o == Outcome(l.cond, "get_user") IN
    IF o = "ok" THEN [u |-> <<UserInfo(l, rn)>>, err |-> <<>>]
    ELSE IF o = "malformed" THEN [u |-> <<Garbled(l, rn)>>, err |-> <<>>]
    ELSE [u |-> <<>>, err |-> <<o>>]

\* rebecca.get_user: marzban's get_user, with the key normalised.
rebecca_get_user(l, rn) == marzban_get_user(l, rn)

\* fetch_links_from_panel of rebecca, pasarguard and guardcore: the links,
\* [] on any failure.
vendor_fetch_links(l, rn) ==
    IF Outcome(l.cond, "fetch_links") = "ok" THEN Subscription(l, rn) ELSE <<>>

\* sanaei.fetch_links_from_panel: (links, None) or ([], error).
sanaei_fetch_links_from_panel(l, rn) ==
    LET o == Outcome(l.cond, "fetch_links") IN
    IF o = "ok" THEN [links |-> Subscription(l, rn), err |-> <<>>]
    ELSE [links |-> <<>>, err |-> <<o>>]

\* fetch_user of the aggregator: r.json() on status 200, whatever the
\* payload; None on any other status and on any exception.
fetch_user(l) ==
    LET o == Outcome(l.cond, "get_user") IN
    IF o = "ok" THEN <<UserInfo(l, l.remote_username)>>
    ELSE IF o = "malformed" THEN <<Garbled(l, l.remote_username)>>
    ELSE <<>>

\* fetch_links_from_panel of the aggregator: (links, None) or ([], error).
fetch_links_from_panel(l) ==
    LET o == Outcome(l.cond, "fetch_links") IN
    IF o = "ok" THEN [links |-> Subscription(l, l.remote_username), err |-> <<>>]
    ELSE [links |-> <<>>, err |-> <<o>>]

\* remote_worker of the sanaei branch, for one identity.
remote_worker(l, rn, want_html) ==
    LET g == IF want_html THEN marzban_get_user(l, rn) ELSE [u |-> <<>>, err |-> <<>>]
        f == sanaei_fetch_links_from_panel(l, rn)
    IN  [links |-> f.links,
         errs |-> IF f.err = <<>> THEN <<>> ELSE <<ErrorString(l, rn, f.err[1])>>,
         rinfo |-> IF g.err = <<>> THEN g.u ELSE <<>>]

FirstInfo(infos) ==
    LET found == SelectSeq(infos, LAMBDA i : i # <<>>)
    IN  IF found = <<>> THEN <<>> ELSE found[1]

\* The sanaei branch: every identity of the comma-joined remote_username, in
\* the order the inner pool completes them.
sanaei_branch(l, want_html, inner) ==
    LET remotes == l.remote_username
        turn == IF Len(remotes) > 1 THEN inner ELSE [i \in 1..Len(remotes) |-> i]
        r == [i \in 1..Len(remotes) |-> remote_worker(l, <<remotes[turn[i]]>>, want_html)]
    IN  [links |-> Concat([i \in 1..Len(r) |-> r[i].links]),
         errs |-> Concat([i \in 1..Len(r) |-> r[i].errs]),
         rinfo |-> FirstInfo([i \in 1..Len(r) |-> r[i].rinfo]),
         raised |-> FALSE]

\* The rebecca, pasarguard and guardcore branches: the key is read only
\* from a user that is a dict.
vendor_branch(l, want_html) ==
    LET g == IF l.panel_type = "rebecca" THEN rebecca_get_user(l, l.remote_username)
             ELSE get_user(l, l.remote_username)
        key == g.u # <<>> /\ g.u[1].dict
        ls == IF key THEN vendor_fetch_links(l, l.remote_username) ELSE <<>>
    IN  [links |-> ls,
         errs |-> (IF g.err = <<>> THEN <<>>
                   ELSE <<ErrorString(l, l.remote_username, g.err[1])>>)
                  \o (IF key /\ ls = <<>>
                      THEN <<ErrorString(l, l.remote_username, "links empty")>>
                      ELSE <<>>),
         rinfo |-> IF want_html THEN g.u ELSE <<>>,
         raised |-> FALSE]

\* The default branch: fetch_user, then fetch_links_from_panel when the user
\* carries a key. A failed fetch_user leaves no error string; u.get("key")
\* raises AttributeError on a user that is not a dict.
default_branch(l, want_html) ==
    LET u == fetch_user(l)
        raised == u # <<>> /\ ~u[1].dict
        f == IF u # <<>> /\ ~raised THEN fetch_links_from_panel(l)
             ELSE [links |-> <<>>, err |-> <<>>]
    IN  [links |-> f.links,
         errs |-> IF f.err = <<>> THEN <<>>
                  ELSE <<ErrorString(l, l.remote_username, f.err[1])>>,
         rinfo |-> IF want_html THEN u ELSE <<>>,
         raised |-> raised]

RECURSIVE KeepOrdinals(_, _, _)
KeepOrdinals(ls, idx, nums) ==
    IF ls = <<>> THEN <<>>
    ELSE (IF idx \in nums THEN <<>> ELSE <<Head(ls)>>)
         \o KeepOrdinals(Tail(ls), idx + 1, nums)

\* worker: the branch of the row's vendor type, then the panel's disabled
\* names, then its disabled ordinals (counted after the name filter), then
\* the ratio suffix.
worker(l, dn_map, di_map, want_html, inner) ==
    LET b == IF l.panel_type = "sanaei" THEN sanaei_branch(l, want_html, inner)
             ELSE IF l.panel_type \in {"rebecca", "pasarguard", "guardcore"}
             THEN vendor_branch(l, want_html)
             ELSE default_branch(l, want_html)
        disabled_names == load_disabled_names(dn_map[l.panel_id])
        disabled_nums == di_map[l.panel_id]
        named == IF disabled_names # {}
                 THEN SelectSeq(b.links, LAMBDA x : extract_name(x) \notin disabled_names)
                 ELSE b.links
        numbered == IF disabled_nums # {} THEN KeepOrdinals(named, 1, disabled_nums)
                    ELSE named
    IN  [links |-> [i \in 1..Len(numbered) |->
                      maybe_append_ratio_to_name(numbered[i], l.usage_multiplier,
                                                 l.append_ratio_to_name)],
         errs |-> b.errs, rinfo |-> b.rinfo, raised |-> b.raised]

\* collect_links: one worker per mapping, merged in the order the pool
\* completes them; an exception of a worker leaves through fut.result().
collect_links(req, order, inner) ==
    LET r == [i \in 1..Len(req.mapped) |->
                 worker(req.mapped[order[i]], req.dn_map, req.di_map, req.want_html, inner)]
    IN  IF \E i \in 1..Len(r) : r[i].raised
        THEN [raised |-> TRUE, links |-> <<>>, errors |-> <<>>, info |-> <<>>]
        ELSE [raised |-> FALSE,
              links |-> Concat([i \in 1..Len(r) |-> r[i].links]),
              errors |-> Concat([i \in 1..Len(r) |-> r[i].errs]),
              info |-> FirstInfo([i \in 1..Len(r) |-> r[i].rinfo])]

\* The orders in which a pool of n tasks can complete.
Orders(n) == {f \in [1..n -> 1..n] : \A i, j \in 1..n : f[i] = f[j] => i = j}

\* run of collect_links on the request the step holds.
CollectLinks ==
    /\ step.op = "collect_request"
    /\ \E order \in Orders(Len(step.arg.mapped)), inner \in Orders(2) :
          step' = [op |-> "collect_links", u |-> step.u, html |-> step.html,
                   arg |-> step.arg, calls |-> <<>>,
                   result |-> collect_links(step.arg, order, inner)]
    /\ UNCHANGED <<lu, ag, links, mult, now, tick>>

\* ------------------------------------------------------------ filter_dedupe
\* A line is [pre, scheme, rest, post]: the characters around the text, which
\* are blanks and quotes, the text's scheme prefix as written, and what
\* follows it.
Blank == " "
DoubleQuote == "\""
SingleQuote == "'"

ALLOWED_SCHEMES == {"vless://", "vmess://", "trojan://", "ss://"}

\* str.lower() on the scheme prefixes the model uses.
Lower(scheme) == IF scheme = "VLESS://" THEN "vless://" ELSE scheme

RECURSIVE LStrip(_, _)
LStrip(cs, c) == IF cs # <<>> /\ Head(cs) = c THEN LStrip(Tail(cs), c) ELSE cs

RECURSIVE RStrip(_, _)
RStrip(cs, c) ==
    IF cs # <<>> /\ cs[Len(cs)] = c THEN RStrip(SubSeq(cs, 1, Len(cs) - 1), c) ELSE cs

\* str.strip(c) of a line whose text neither starts nor ends with c.
Strip(line, c) == [line EXCEPT !.pre = LStrip(@, c), !.post = RStrip(@, c)]

\* ss = s.strip().strip('"').strip("'")
Stripped(line) == Strip(Strip(Strip(line, Blank), DoubleQuote), SingleQuote)

\* ss.lower().startswith(ALLOWED_SCHEMES)
Recognized(ss) == ss.pre = <<>> /\ Lower(ss.scheme) \in ALLOWED_SCHEMES

RECURSIVE FirstOccurrences(_, _)
FirstOccurrences(ls, seen) ==
    IF ls = <<>> THEN <<>>
    ELSE IF Head(ls) \in seen THEN FirstOccurrences(Tail(ls), seen)
    ELSE <<Head(ls)>> \o FirstOccurrences(Tail(ls), seen \cup {Head(ls)})

filter_dedupe(ls) ==
    FirstOccurrences(SelectSeq([i \in 1..Len(ls) |-> Stripped(ls[i])], Recognized), {})

\* run of filter_dedupe on the lines the step holds.
FilterDedupe ==
    /\ step.op = "dedupe_request"
    /\ step' = [op |-> "filter_dedupe", u |-> "-", html |-> FALSE, arg |-> step.arg,
                calls |-> <<>>, result |-> filter_dedupe(step.arg)]
    /\ UNCHANGED <<lu, ag, links, mult, now, tick>>

\* ---------------------------------------------------------- specification
\* upsert_local_user on a fresh database: no usage, no flag set.
FreshUser == [present |-> TRUE, plan_limit_bytes |-> 0, used_bytes |-> 0,
              expire_at |-> NoExpiry, manual_disabled |-> 0, disabled_pushed |-> 0,
              usage_limit_notified |-> 0, expire_limit_notified |-> 0]

\* The agents row as the schema defaults leave it.
FreshAgent == [plan_limit_bytes |-> 0, total_used_bytes |-> 0, expire_at |-> NoExpiry,
               active |-> 1, disabled_pushed |-> 0]

\* u1 is provisioned on both panels; u2 has no explicit mapping.
InitLinks == (<<"u1", "p1">> :> 0) @@ (<<"u1", "p2">> :> 0)

\* A username without a local_users row.
AbsentUser == [FreshUser EXCEPT !.present = FALSE]

InitWith(present, mu) ==
    /\ lu = [u \in Users |-> IF u \in present THEN FreshUser ELSE AbsentUser]
    /\ ag = FreshAgent
    /\ links = InitLinks
    /\ mult = mu
    /\ now = 0
    /\ tick = Idle
    /\ step = StepOf("init", "-", FALSE, 0, <<>>)

\* The complete system: both subscribers, every operation.
Init == InitWith(Users, [p \in Panels |-> NoMult])

Next ==
    \/ TickBegin
    \/ TickLink
    \/ TickAgents
    \/ LinkRequest
    \/ UpdateLimit
    \/ SetUserDisabled
    \/ ResetUsed
    \/ RenewUser
    \/ SetAgentQuota
    \/ RenewAgent
    \/ SetAgentActive
    \/ AdvanceClock

Spec == Init /\ [][Next]_vars

\* The subscriber state machine: one subscriber, mapped to both panels,
\* under an agent whose quota the operator edits; the operator edits the
\* subscriber's limit, expiry and manual flag while the sync loop runs and
\* link requests arrive.
InitUser == InitWith({"u1"}, [p \in Panels |-> NoMult])

NextUser ==
    \/ TickBegin
    \/ TickLink
    \/ TickAgents
    \/ LinkRequest
    \/ UpdateLimit
    \/ SetUserDisabled
    \/ RenewUser
    \/ SetAgentQuota
    \/ AdvanceClock

SpecUser == InitUser /\ [][NextUser]_vars

\* The agent state machine: two subscribers with no limit of their own (one
\* mapped to both panels, one with no mapping), the operator's manual
\* switch, and an agent whose quota and expiry change.
NextAgent ==
    \/ TickBegin
    \/ TickLink
    \/ TickAgents
    \/ LinkRequest
    \/ SetUserDisabled
    \/ SetAgentQuota
    \/ RenewAgent
    \/ AdvanceClock

SpecAgent == Init /\ [][NextAgent]_vars

\* Usage accounting: one subscriber on two panels whose multipliers are any
\* stored values; the sync loop runs and the operator resets the counter.
InitUsage == \E mu \in [Panels -> MultVals] : InitWith({"u1"}, mu)

NextUsage ==
    \/ TickBegin
    \/ TickLink
    \/ TickAgents
    \/ ResetUsed

SpecUsage == InitUsage /\ [][NextUsage]_vars

\* Frozen persisted state: any limit, counter, expiry and disabled_pushed
\* flag of one subscriber, at any time; nothing edits the state, no panel
\* reports new usage, and only the sync loop and link requests run.  The
\* sync loop never stops, so its steps are weakly fair; link requests
\* arrive at the clients' pleasure.
InitFrozen ==
    \E limit \in ByteVals, used \in ByteVals, e \in ExpireVals,
       pushed \in Bit, t \in 0..MaxTime :
        /\ lu = [u \in Users |->
                    IF u = "u1"
                    THEN [FreshUser EXCEPT !.plan_limit_bytes = limit,
                                           !.used_bytes = used,
                                           !.expire_at = e,
                                           !.disabled_pushed = pushed]
                    ELSE AbsentUser]
        /\ ag = [FreshAgent EXCEPT !.total_used_bytes = used]
        /\ links = InitLinks
        /\ mult = [p \in Panels |-> NoMult]
        /\ now = t
        /\ tick = Idle
        /\ step = StepOf("init", "-", FALSE, 0, <<>>)

\* A sync iteration whose reading brings no new usage.
FrozenTickLink ==
    /\ TickLink
    /\ \A u \in Users : lu'[u].used_bytes = lu[u].used_bytes
    /\ ag'.total_used_bytes = ag.total_used_bytes

NextFrozen ==
    \/ TickBegin
    \/ FrozenTickLink
    \/ TickAgents
    \/ LinkRequest

SpecFrozen ==
    /\ InitFrozen
    /\ [][NextFrozen]_vars
    /\ WF_vars(TickBegin \/ FrozenTickLink \/ TickAgents)

\* Link management: the operator re-selects the panels of a subscriber
\* while limits, the manual switch and the agent quota change, the sync
\* loop runs and link requests arrive.
NextLinks ==
    \/ TickBegin
    \/ TickLink
    \/ TickAgents
    \/ LinkRequest
    \/ UpdateLimit
    \/ SetUserDisabled
    \/ SetAgentQuota
    \/ SyncUserPanels

SpecLinks == InitUser /\ [][NextLinks]_vars

\* Agent evaluation: the agent's quota, expiry and active flag change while
\* the sync loop runs and link requests arrive for subscribers that have no
\* limit of their own.
NextAgentEval ==
    \/ TickBegin
    \/ TickLink
    \/ TickAgents
    \/ LinkRequest
    \/ SetAgentQuota
    \/ RenewAgent
    \/ SetAgentActive
    \/ AdvanceClock

SpecAgentEval == Init /\ [][NextAgentEval]_vars

\* ------------------------------------------------------------------------
\* Link collection for a subscriber mapped to three panels, no disabled
\* filter, no ratio suffix: any condition per panel; the first two panels are
\* of one vendor type, the third, whose mapping carries two comma-joined
\* identities, of the same type or a sanaei panel.
MappedPanels == <<"p1", "p2", "p3">>

RemoteNames == <<(<<"u1">>), (<<"u1">>), (<<"u1", "u1b">>)>>

Served == <<[scheme |-> "vless", frag |-> TRUE, name |-> <<"A">>],
            [scheme |-> "vmess", frag |-> FALSE, name |-> <<"B">>]>>

MappedRow(i, type, cond) ==
    [panel_id |-> MappedPanels[i], panel_type |-> type,
     remote_username |-> RemoteNames[i], cond |-> cond, served |-> Served,
     usage_multiplier |-> NoMult, append_ratio_to_name |-> 0]

CollectRequest(mapped, want_html, dn_map, di_map) ==
    [op |-> "collect_request", u |-> "u1", html |-> want_html,
     arg |-> [mapped |-> mapped, want_html |-> want_html,
              dn_map |-> dn_map, di_map |-> di_map],
     calls |-> <<>>]

NoFilters == [p \in {MappedPanels[i] : i \in DOMAIN MappedPanels} |-> {}]

InitCollect ==
    /\ lu = [u \in Users |-> FreshUser]
    /\ ag = FreshAgent
    /\ links = InitLinks
    /\ mult = [p \in Panels |-> NoMult]
    /\ now = 0
    /\ tick = Idle
    /\ \E type \in PanelTypes : \E third \in {type, "sanaei"},
          cond \in [DOMAIN MappedPanels -> PanelConditions],
          want_html \in BOOLEAN :
          step = CollectRequest([i \in DOMAIN MappedPanels |->
                                    MappedRow(i, IF i = Len(MappedPanels) THEN third ELSE type,
                                              cond[i])],
                                want_html, NoFilters, NoFilters)

NextCollect == CollectLinks

SpecCollect == InitCollect /\ [][NextCollect]_vars

\* ------------------------------------------------------------------------
\* filter_dedupe on any list of up to MaxLines lines: each a text of a
\* recognized scheme, of an upper-case scheme or of a foreign scheme, bare or
\* wrapped in blanks and quotes.
MaxLines == 3

Texts == {[scheme |-> "vless://", rest |-> "a#X"], [scheme |-> "ss://", rest |-> "b#Y"],
          [scheme |-> "VLESS://", rest |-> "a#X"], [scheme |-> "http://", rest |-> "a#X"]}

\* The characters before the text, from the outside in; those after it mirror
\* them.
Wrappers == {<<>>, <<DoubleQuote>>, <<Blank, DoubleQuote>>, <<DoubleQuote, Blank>>,
             <<SingleQuote, DoubleQuote>>}

Mirror(cs) == [i \in 1..Len(cs) |-> cs[Len(cs) + 1 - i]]

Lines == {[pre |-> w, scheme |-> t.scheme, rest |-> t.rest, post |-> Mirror(w)] :
             w \in Wrappers, t \in Texts}

InitDedupe ==
    /\ lu = [u \in Users |-> FreshUser]
    /\ ag = FreshAgent
    /\ links = InitLinks
    /\ mult = [p \in Panels |-> NoMult]
    /\ now = 0
    /\ tick = Idle
    /\ \E n \in 0..MaxLines : \E ls \in [1..n -> Lines] :
          step = [op |-> "dedupe_request", u |-> "-", html |-> FALSE, arg |-> ls,
                  calls |-> <<>>]

NextDedupe == FilterDedupe

SpecDedupe == InitDedupe /\ [][NextDedupe]_vars

\* ------------------------------------------------------------------------
\* Link collection from one reachable panel that serves two links, with the
\* names a panel puts into fragments (live usage annotation, user marker,
\* parenthesised id), under the disabled names an operator entered, with or
\* without a disabled ordinal and a ratio suffix.
ServedNames == {<<"A">>, <<"A", "150MB/500MB">>, <<"B", "1.5GB/10GB", MarkerToken, "bob">>,
                <<"A", "(abc123)", "150MB/500MB">>, <<"150MB/500MB">>,
                <<"A", "B", "A", "B", "A", "1.5GB/10GB">>}

EnteredNames == {<<"A">>, <<"B", "150MB/500MB">>, <<"A", "B", "A", "B", "A">>}

ServedLinks == {[scheme |-> sc, frag |-> sc # "vmess", name |-> n] :
                   sc \in {"vless", "vmess"}, n \in ServedNames}

InitFilter ==
    /\ lu = [u \in Users |-> FreshUser]
    /\ ag = FreshAgent
    /\ links = InitLinks
    /\ mult = [p \in Panels |-> NoMult]
    /\ now = 0
    /\ tick = Idle
    /\ \E type \in {"marzneshin", "sanaei"}, first \in ServedLinks, second \in ServedLinks,
          entered \in SUBSET EnteredNames, nums \in {{}, {1}}, ratio \in {0, 1} :
          step = CollectRequest(
                     <<[MappedRow(1, type, "up") EXCEPT
                           !.served = <<first, second>>,
                           !.usage_multiplier = IF ratio = 1 THEN 4 ELSE NoMult,
                           !.append_ratio_to_name = ratio]>>,
                     FALSE,
                     [NoFilters EXCEPT ![MappedPanels[1]] = set_panel_disabled_names(entered)],
                     [NoFilters EXCEPT ![MappedPanels[1]] = nums])

SpecFilter == InitFilter /\ [][NextCollect]_vars

\* ------------------------------------------- add_usage beside its readers
\* add_usage statement by statement. tick holds the transaction of the sync
\* loop: where it stands, the subscriber and the weighted delta it was called
\* with, and the sum of the deltas of the calls that returned. lu and ag are
\* the committed rows.
\* tick.notes: the notifications the loop has sent to the owner; tick.pushes:
\* the Disable broadcasts of its subscriber evaluations.
NoTransaction == [pc |-> "idle", u |-> "-", delta |-> 0, passed |-> 0, notes |-> <<>>,
                  pushes |-> 0]

InTransaction(t) == t.pc \in {"user_updated", "agent_updated"}

\* Faulty variant of Visible: every statement is committed as it runs.
Visible_autocommit(l, a, t) ==
    [lu |-> IF InTransaction(t) THEN add_usage(l, a, t.u, t.delta).lu ELSE l,
     ag |-> IF t.pc = "agent_updated" THEN add_usage(l, a, t.u, t.delta).ag ELSE a]

\* What a SELECT on another connection returns while the transaction t is
\* open: the cursor context commits on exit, so the committed rows.
Visible(l, a, t) == [lu |-> l, ag |-> a]

\* with with_mysql_cursor() as cur: a connection, a transaction.
AddUsageEnter ==
    /\ tick.pc = "idle"
    /\ \E u \in Users, delta \in 1..MaxBytes :
          /\ lu[u].present
          /\ ag.total_used_bytes + delta <= MaxBytes
          /\ tick' = [tick EXCEPT !.pc = "entered", !.u = u, !.delta = delta]
    /\ UNCHANGED <<lu, ag, links, mult, now, step>>

\* UPDATE local_users SET used_bytes = LEAST(used_bytes + delta, ..)
AddUsageUser ==
    /\ tick.pc = "entered"
    /\ tick' = [tick EXCEPT !.pc = "user_updated"]
    /\ UNCHANGED <<lu, ag, links, mult, now, step>>

\* UPDATE agents SET total_used_bytes = LEAST(total_used_bytes + delta, ..)
AddUsageAgent ==
    /\ tick.pc = "user_updated"
    /\ tick' = [tick EXCEPT !.pc = "agent_updated"]
    /\ UNCHANGED <<lu, ag, links, mult, now, step>>

\* __exit__: conn.commit()
AddUsageCommit ==
    /\ tick.pc = "agent_updated"
    /\ LET e == add_usage(lu, ag, tick.u, tick.delta) IN
          /\ lu' = e.lu
          /\ ag' = e.ag
    /\ tick' = [tick EXCEPT !.pc = "committed", !.passed = @ + tick.delta]
    /\ UNCHANGED <<links, mult, now, step>>

\* __exit__ with an exception (a statement failed): conn.rollback(), and the
\* exception ends the tick before update_last.
AddUsageRollback ==
    /\ InTransaction(tick)
    /\ tick' = [tick EXCEPT !.pc = "idle"]
    /\ UNCHANGED <<lu, ag, links, mult, now, step>>

\* The rest of the iteration: update_last and the subscriber evaluation.
AddUsageFollowUp ==
    /\ tick.pc = "committed"
    /\ LET e == SyncEvaluateUser(lu, links, tick.u) IN
          /\ lu' = e.lu
          /\ tick' = [tick EXCEPT
                        !.pc = "idle", !.notes = @ \o e.notes,
                        !.pushes = IF lu[tick.u].disabled_pushed = 0
                                      /\ e.lu[tick.u].disabled_pushed = 1
                                   THEN @ + 1 ELSE @]
    /\ UNCHANGED <<ag, links, mult, now, step>>

\* The flag columns a handler wrote, applied to the rows as they now are: the
\* handlers write with single-column UPDATE statements.
ApplyMarks(l, before, after) ==
    [u \in Users |->
        [l[u] EXCEPT
            !.disabled_pushed = IF after[u].disabled_pushed # before[u].disabled_pushed
                                THEN after[u].disabled_pushed ELSE @,
            !.usage_limit_notified =
                IF after[u].usage_limit_notified # before[u].usage_limit_notified
                THEN after[u].usage_limit_notified ELSE @,
            !.expire_limit_notified =
                IF after[u].expire_limit_notified # before[u].expire_limit_notified
                THEN after[u].expire_limit_notified ELSE @]]

ApplyAgentMark(a, before, after) ==
    IF after.disabled_pushed # before.disabled_pushed
    THEN [a EXCEPT !.disabled_pushed = after.disabled_pushed] ELSE a

NoRequest == [op |-> "request", pc |-> "none", u |-> "-", html |-> FALSE,
              row |-> AbsentUser, agent |-> FreshAgent, during |-> "idle",
              calls |-> <<>>, notes |-> <<>>, pushes |-> 0]

\* unified_links: lu = get_local_user(owner_id, local_username)
RequestReadUser ==
    /\ step.pc \in {"none", "done"}
    /\ \E u \in Users, html \in BOOLEAN :
          /\ lu[u].present
          /\ step' = [NoRequest EXCEPT !.pc = "user", !.u = u, !.html = html,
                                       !.row = Visible(lu, ag, tick).lu[u],
                                       !.during = tick.pc,
                                       !.notes = step.notes,
                                       !.pushes = step.pushes]
    /\ UNCHANGED <<lu, ag, links, mult, now, tick>>

\* unified_links: ag = get_agent(owner_id); get_agent_total_used(owner_id)
RequestReadAgent ==
    /\ step.pc = "user"
    /\ step' = [step EXCEPT !.pc = "agent", !.agent = Visible(lu, ag, tick).ag]
    /\ UNCHANGED <<lu, ag, links, mult, now, tick>>

\* unified_links from the agent gate on, deciding on the rows it read. An
\* UPDATE of a row the open transaction has written waits for its commit.
RequestFinish ==
    /\ step.pc = "agent"
    /\ LET before == [lu EXCEPT ![step.u] = step.row]
           e == unified_links(before, step.agent, links, now, step.u, step.html)
           newlu == ApplyMarks(lu, before, e.lu)
           newag == ApplyAgentMark(ag, step.agent, e.ag)
       IN  /\ (newlu = lu /\ newag = ag) \/ ~InTransaction(tick)
           /\ lu' = newlu
           /\ ag' = newag
           /\ step' = [step EXCEPT
                        !.pc = "done", !.calls = e.calls,
                        !.notes = @ \o e.notes,
                        !.pushes = IF e.stop # "agent"
                                      /\ step.row.disabled_pushed = 0
                                      /\ e.lu[step.u].disabled_pushed = 1
                                   THEN @ + 1 ELSE @]
    /\ UNCHANGED <<links, mult, now, tick>>

\* sync_agent_now, called by quotas.set_agent_quota.
EvaluateNow ==
    /\ ~InTransaction(tick)
    /\ LET e == SyncEvaluateAgent(lu, ag, links, now) IN
          /\ lu' = e.lu
          /\ ag' = e.ag
    /\ UNCHANGED <<links, mult, now, tick, step>>

\* ------------------------------------------------------------------------
\* The sync loop adding usage for u1, statement by statement, beside link
\* requests and on-demand agent evaluations on the same rows, for any
\* subscriber and agent limit.
InitCounters ==
    /\ \E limit \in ByteVals, agent_limit \in ByteVals :
          /\ lu = [u \in Users |-> IF u = "u1"
                                    THEN [FreshUser EXCEPT !.plan_limit_bytes = limit]
                                    ELSE AbsentUser]
          /\ ag = [FreshAgent EXCEPT !.plan_limit_bytes = agent_limit]
    /\ links = InitLinks
    /\ mult = [p \in Panels |-> NoMult]
    /\ now = 0
    /\ tick = NoTransaction
    /\ step = NoRequest

NextCounters ==
    \/ AddUsageEnter
    \/ AddUsageUser
    \/ AddUsageAgent
    \/ AddUsageCommit
    \/ AddUsageRollback
    \/ AddUsageFollowUp
    \/ RequestReadUser
    \/ RequestReadAgent
    \/ RequestFinish
    \/ EvaluateNow

SpecCounters == InitCounters /\ [][NextCounters]_vars

\* ------------------------------------------------------------------------
\* collect_links thread by thread. step holds one run: the task of each
\* mapping on the outer pool ex, the tasks a sanaei worker submitted to its
\* inner pool, and the holders of the two cache locks (0 = free).
RunMapped == <<"p1", "p2">>

Tasks == DOMAIN RunMapped

At(a) == [at |-> a, c |-> "-"]

InCache(c, a) == [at |-> a, c |-> c]

Caches == {"user", "links"}

Cached(kind) == kind \in {"marzneshin", "marzban"}

\* with ThreadPoolExecutor(max_workers=max_workers) as ex
ex == <<"ex", 0>>

\* Faulty variant of inner_ex: the remote workers go to the outer pool.
inner_ex_outer(i) == ex

\* with ThreadPoolExecutor(max_workers=inner_workers) as inner_ex: a pool of
\* the worker's own.
inner_ex(i) == <<"inner_ex", i>>

InnerCalling(s, i) ==
    Cardinality({j \in DOMAIN s.inner[i] : s.inner[i][j] = "calling"})

RECURSIVE InnerBusy(_, _, _)
InnerBusy(s, pool, n) ==
    IF n = 0 THEN 0
    ELSE (IF inner_ex(n) = pool THEN InnerCalling(s, n) ELSE 0)
         + InnerBusy(s, pool, n - 1)

\* The threads of a pool that are running a task; a worker waiting for its
\* inner pool keeps its thread.
Busy(s, pool) ==
    (IF pool = ex
     THEN Cardinality({i \in Tasks : s.pc[i].at \notin {"queued", "done"}})
     ELSE 0) + InnerBusy(s, pool, Len(RunMapped))

Min(a, b) == IF a <= b THEN a ELSE b

\* Faulty variant of PoolSize: a thread for every task submitted.
PoolSize_per_task(s, pool) ==
    IF pool = ex THEN Len(RunMapped) ELSE Len(s.inner[pool[2]])

\* Faulty variant of PoolSize: every pool has one thread.
PoolSize_single(s, pool) == 1

\* max_workers of a pool: min(FETCH_MAX_WORKERS, len(mapped)) or 1 for ex,
\* min(3, len(remotes)) or 1 for an inner pool.
PoolSize(s, pool) ==
    LET m == IF pool = ex THEN Min(s.max_workers_env, Len(RunMapped))
             ELSE Min(3, Len(s.inner[pool[2]]))
    IN  IF m = 0 THEN 1 ELSE m

\* A pool thread takes the next task of the mapping list.
WorkerStart(i) ==
    /\ step.pc[i] = At("queued")
    /\ Busy(step, ex) < PoolSize(step, ex)
    /\ step' = [step EXCEPT !.pc[i] = At("running")]

\* sanaei, more than one remote: remote_worker per remote on inner_ex.
SanaeiSubmit(i) ==
    /\ step.pc[i] = At("running")
    /\ step.kind[i] = "sanaei"
    /\ step.remotes[i] > 1
    /\ step' = [step EXCEPT !.pc[i] = At("inner_wait"),
                            !.inner[i] = [j \in 1..step.remotes[i] |-> "queued"]]

InnerStart(i) ==
    /\ \E j \in DOMAIN step.inner[i] :
          /\ step.inner[i][j] = "queued"
          /\ Busy(step, inner_ex(i)) < PoolSize(step, inner_ex(i))
          /\ step' = [step EXCEPT !.inner[i][j] = "calling"]

\* The panel calls of remote_worker return or time out.
InnerReturn(i) ==
    /\ \E j \in DOMAIN step.inner[i] :
          /\ step.inner[i][j] = "calling"
          /\ step' = [step EXCEPT !.inner[i][j] = "done"]

\* as_completed(futures) and the exit of the with block of inner_ex.
SanaeiJoin(i) ==
    /\ step.pc[i] = At("inner_wait")
    /\ \A j \in DOMAIN step.inner[i] : step.inner[i][j] = "done"
    /\ step' = [step EXCEPT !.pc[i] = At("done")]

\* One remote of sanaei, or rebecca, pasarguard, guardcore: the worker calls
\* the vendor module itself.
DirectCall(i) ==
    /\ step.pc[i] = At("running")
    /\ ~Cached(step.kind[i])
    /\ step.kind[i] = "sanaei" => step.remotes[i] <= 1
    /\ step' = [step EXCEPT !.pc[i] = At("calling")]

DirectReturn(i) ==
    /\ step.pc[i] = At("calling")
    /\ step' = [step EXCEPT !.pc[i] = At("done")]

\* cached(cache, lock): with lock: look the key up. fetch_user first, then
\* fetch_links_from_panel for a user that has a key.
CacheEnter(i) ==
    \E c \in Caches :
        /\ Cached(step.kind[i])
        /\ step.pc[i] = IF c = "user" THEN At("running") ELSE InCache("user", "got")
        /\ step.lock[c] \in {0, i}
        /\ step' = [step EXCEPT !.pc[i] = InCache(c, "lookup"), !.lock[c] = i]

\* The lock is released after the lookup: a hit returns the stored value, a
\* miss calls the function outside the lock.
CacheLookup(i) ==
    \E c \in Caches, hit \in BOOLEAN :
        /\ step.pc[i] = InCache(c, "lookup")
        /\ step' = [step EXCEPT !.pc[i] = InCache(c, IF hit THEN "got" ELSE "call"),
                                !.lock[c] = 0]

\* The panel call of the cached function returns or times out.
CacheCallReturn(i) ==
    \E c \in Caches :
        /\ step.pc[i] = InCache(c, "call")
        /\ step' = [step EXCEPT !.pc[i] = InCache(c, "returned")]

\* with lock: cache.setdefault(k, v)
CacheStore(i) ==
    \E c \in Caches :
        /\ step.pc[i] = InCache(c, "returned")
        /\ step.lock[c] \in {0, i}
        /\ step' = [step EXCEPT !.pc[i] = InCache(c, "store"), !.lock[c] = i]

CacheStored(i) ==
    \E c \in Caches :
        /\ step.pc[i] = InCache(c, "store")
        /\ step' = [step EXCEPT !.pc[i] = InCache(c, "got"), !.lock[c] = 0]

\* The worker returns: after the links, or without them for a user that was
\* not found or has no key, or with the exception it raised.
WorkerReturn(i) ==
    /\ step.pc[i] \in {InCache("user", "got"), InCache("links", "got")}
    /\ step' = [step EXCEPT !.pc[i] = At("done")]

\* as_completed(futures) and the exit of the with block of ex.
CollectJoin ==
    /\ step.main = "waiting"
    /\ \A i \in Tasks : step.pc[i] = At("done")
    /\ step' = [step EXCEPT !.main = "done"]
    /\ UNCHANGED <<lu, ag, links, mult, now, tick>>

WorkerStep(i) ==
    /\ \/ WorkerStart(i)
       \/ SanaeiSubmit(i)
       \/ InnerStart(i)
       \/ InnerReturn(i)
       \/ SanaeiJoin(i)
       \/ DirectCall(i)
       \/ DirectReturn(i)
       \/ CacheEnter(i)
       \/ CacheLookup(i)
       \/ CacheCallReturn(i)
       \/ CacheStore(i)
       \/ CacheStored(i)
       \/ WorkerReturn(i)
    /\ UNCHANGED <<lu, ag, links, mult, now, tick>>

CollectRun == \E i \in Tasks : WorkerStep(i)

RunKinds == {"sanaei", "rebecca", "marzneshin"}

EnvWorkers == {1, 5}

\* A run of collect_links over two mappings of any kind, a sanaei mapping
\* with one or two remotes, FETCH_MAX_WORKERS 1 or the default, beside the
\* sync loop adding usage.
InitRun ==
    /\ lu = [u \in Users |-> IF u = "u1" THEN FreshUser ELSE AbsentUser]
    /\ ag = FreshAgent
    /\ links = InitLinks
    /\ mult = [p \in Panels |-> NoMult]
    /\ now = 0
    /\ tick = NoTransaction
    /\ \E kind \in [Tasks -> RunKinds], remotes \in [Tasks -> 1..2],
          env \in EnvWorkers :
          /\ \A i \in Tasks : kind[i] # "sanaei" => remotes[i] = 1
          /\ step = [op |-> "collect_run", main |-> "waiting",
                      max_workers_env |-> env, kind |-> kind, remotes |-> remotes,
                      pc |-> [i \in Tasks |-> At("queued")],
                      inner |-> [i \in Tasks |-> <<>>],
                      lock |-> [c \in Caches |-> 0]]

NextRun ==
    \/ CollectRun
    \/ CollectJoin
    \/ AddUsageEnter
    \/ AddUsageUser
    \/ AddUsageAgent
    \/ AddUsageCommit
    \/ AddUsageRollback
    \/ AddUsageFollowUp

\* Every thread that can take a step takes one, every panel call returns
\* or times out, and every statement of the sync loop's transaction ends.
SpecRun ==
    /\ InitRun
    /\ [][NextRun]_vars
    /\ \A i \in Tasks : WF_vars(WorkerStep(i))
    /\ WF_vars(CollectJoin)
    /\ WF_vars(AddUsageUser)
    /\ WF_vars(AddUsageAgent)
    /\ WF_vars(AddUsageCommit)
    /\ WF_vars(AddUsageFollowUp)

\* ------------------------------------------------- add_usage at the ceiling
\* used_bytes and total_used_bytes are BIGINT NOT NULL columns: signed, so
\* the largest value a row can hold is 2^63-1. ColumnMax stands for it, the
\* way CounterCeiling (2 * ColumnMax + 1) stands for 2^64-1.
ColumnMax == 2 * MaxBytes

\* UPDATE .. SET c = LEAST(c + delta, 18446744073709551615) on one row, as
\* MySQL runs it: <<v>> for the value stored, <<>> when the statement raises.
\* A delta up to ColumnMax is a signed literal and the sum is signed
\* arithmetic, which raises out of range; a larger delta up to CounterCeiling
\* is an unsigned literal and the sum raises past CounterCeiling; a larger
\* one is a DECIMAL and LEAST applies. A result past ColumnMax is rejected by
\* a strict sql_mode and stored as ColumnMax otherwise.
bigint_update(old, delta, strict) ==
    LET sum == old + delta
        v == Least(sum, CounterCeiling)
    IN  IF delta <= ColumnMax /\ sum > ColumnMax THEN <<>>
        ELSE IF delta > ColumnMax /\ delta <= CounterCeiling /\ sum > CounterCeiling
        THEN <<>>
        ELSE IF v > ColumnMax THEN (IF strict THEN <<>> ELSE <<ColumnMax>>)
        ELSE <<v>>

\* add_usage on the stored rows: a statement that raises rolls the
\* transaction back and the exception leaves add_usage.
add_usage_stored(l, a, u, delta, strict) ==
    LET nu == bigint_update(l[u].used_bytes, delta, strict)
        na == bigint_update(a.total_used_bytes, delta, strict)
    IN  IF delta <= 0 THEN [lu |-> l, ag |-> a, raised |-> FALSE]
        ELSE IF nu = <<>> \/ na = <<>> THEN [lu |-> l, ag |-> a, raised |-> TRUE]
        ELSE [lu |-> [l EXCEPT ![u].used_bytes = nu[1]],
              ag |-> [a EXCEPT !.total_used_bytes = na[1]],
              raised |-> FALSE]

\* One call of add_usage for u1, with the delta and the server's sql_mode of
\* the request in step.
AddUsageStored ==
    /\ step.op = "add_usage_request"
    /\ LET e == add_usage_stored(lu, ag, "u1", step.delta, step.strict) IN
          /\ lu' = e.lu
          /\ ag' = e.ag
          /\ step' = [op |-> "add_usage", delta |-> step.delta, strict |-> step.strict,
                      used_bytes |-> lu["u1"].used_bytes,
                      total_used_bytes |-> ag.total_used_bytes,
                      raised |-> e.raised]
    /\ UNCHANGED <<links, mult, now, tick>>

\* Counters anywhere in the column's range, with the agent's total not below
\* the subscriber's, any delta up to past the ceiling, either sql_mode.
InitCeiling ==
    /\ \E used \in 0..ColumnMax, total \in 0..ColumnMax,
          delta \in 1..(CounterCeiling + 1), strict \in BOOLEAN :
          /\ used <= total
          /\ lu = [u \in Users |-> IF u = "u1"
                                    THEN [FreshUser EXCEPT !.used_bytes = used]
                                    ELSE AbsentUser]
          /\ ag = [FreshAgent EXCEPT !.total_used_bytes = total]
          /\ step = [op |-> "add_usage_request", delta |-> delta, strict |-> strict]
    /\ links = InitLinks
    /\ mult = [p \in Panels |-> NoMult]
    /\ now = 0
    /\ tick = NoTransaction

NextCeiling == AddUsageStored

SpecCeiling == InitCeiling /\ [][NextCeiling]_vars

\* ------------------------------------------------ the calls of a broadcast
\* What a panel does to a Disable or Enable call: it answers 200, it answers
\* another status, or the connection fails.
PushAnswers == {"ok", "refused", "down"}

\* disable_remote_user / enable_remote_user of apis.pasarguard and
\* apis.guardcore: (True, None) on 200, (False, message) on another status
\* and on any exception.
vendor_remote_user_call(answer) == answer = "ok"

\* The same call of the marzneshin, marzban and sanaei modules (and of
\* rebecca, which hands the call to marzban).
marzban_remote_user_call(answer) == answer = "ok"

\* usage_sync.disable_remote / enable_remote: 200 when the call went
\* through, None (0 here) when it did not.
remote_code(type, answer) ==
    LET ok == IF type \in {"pasarguard", "guardcore"}
              THEN vendor_remote_user_call(answer)
              ELSE marzban_remote_user_call(answer)
    IN  IF ok THEN 200 ELSE 0

\* Faulty variant of broadcast: the loop is left at the first call that did
\* not go through.
RECURSIVE broadcast_until_failure(_, _, _)
broadcast_until_failure(calls, types, answers) ==
    IF calls = <<>> THEN [sent |-> <<>>, completed |-> TRUE]
    ELSE LET c == Head(calls)
             code == remote_code(types[c.p], answers[c.p])
             rest == broadcast_until_failure(Tail(calls), types, answers)
         IN  IF code # 200
             THEN [sent |-> <<[call |-> c, code |-> code]>>, completed |-> FALSE]
             ELSE [sent |-> <<[call |-> c, code |-> code]>> \o rest.sent,
                   completed |-> rest.completed]

\* for l in links: code, msg = disable_remote(..) (or enable_remote), with a
\* log line per call: the calls sent, each with its code, and whether the
\* loop reached its end.
RECURSIVE broadcast(_, _, _)
broadcast(calls, types, answers) ==
    IF calls = <<>> THEN [sent |-> <<>>, completed |-> TRUE]
    ELSE LET c == Head(calls)
             code == remote_code(types[c.p], answers[c.p])
             rest == broadcast(Tail(calls), types, answers)
         IN  [sent |-> <<[call |-> c, code |-> code]>> \o rest.sent,
              completed |-> rest.completed]

\* try_disable_if_user_exceeded and try_enable_if_user_ok for u1 on panels
\* that answer as the request in step says. The flag is written after the
\* loop over the links.
EvaluateUserPush ==
    /\ step.op = "push_request"
    /\ LET e == SyncEvaluateUser(lu, links, "u1")
           b == broadcast(e.calls, step.types, step.answers)
       IN  /\ lu' = IF b.completed THEN e.lu
                    ELSE [e.lu EXCEPT !["u1"].disabled_pushed = lu["u1"].disabled_pushed]
           /\ step' = [op |-> "evaluate_push", u |-> "u1", sent |-> b.sent,
                       calls |-> e.calls]
    /\ UNCHANGED <<ag, links, mult, now, tick>>

PushTypes == {"marzneshin", "pasarguard", "guardcore"}

\* A subscriber with any limit, usage and flags, its two panels of any type
\* answering the calls in any way.
InitPush ==
    /\ \E limit \in ByteVals, used \in ByteVals, pushed \in Bit, manual \in Bit,
          types \in [Panels -> PushTypes], answers \in [Panels -> PushAnswers] :
          /\ lu = [u \in Users |->
                      IF u = "u1"
                      THEN [FreshUser EXCEPT !.plan_limit_bytes = limit,
                                             !.used_bytes = used,
                                             !.disabled_pushed = pushed,
                                             !.manual_disabled = manual]
                      ELSE AbsentUser]
          /\ ag = [FreshAgent EXCEPT !.total_used_bytes = used]
          /\ step = [op |-> "push_request", types |-> types, answers |-> answers]
    /\ links = InitLinks
    /\ mult = [p \in Panels |-> NoMult]
    /\ now = 0
    /\ tick = Idle

NextPush == EvaluateUserPush

SpecPush == InitPush /\ [][NextPush]_vars

\* ------------------------------------------------ a subscriber is deleted
\* bot.delete_local_user: the link rows of the subscriber, then its
\* local_users row, in one transaction.
delete_local_user(l, lk, u) ==
    [lu |-> [l EXCEPT ![u] = AbsentUser],
     links |-> [k \in {k \in DOMAIN lk : k[1] # u} |-> lk[k]]]

DeleteLocalUser ==
    \E u \in Users :
        /\ lu[u].present
        /\ LET e == delete_local_user(lu, links, u) IN
              /\ lu' = e.lu
              /\ links' = e.links
        /\ step' = StepOf("delete_user", "-", FALSE, 0, <<>>)
        /\ UNCHANGED <<ag, mult, now, tick>>

\* Two subscribers with one link each; the operator deletes subscribers
\* while the sync loop is running.
InitVanish ==
    /\ lu = [u \in Users |-> FreshUser]
    /\ ag = FreshAgent
    /\ links = (<<"u1", "p1">> :> 0) @@ (<<"u2", "p2">> :> 0)
    /\ mult = [p \in Panels |-> NoMult]
    /\ now = 0
    /\ tick = Idle
    /\ step = StepOf("init", "-", FALSE, 0, <<>>)

NextVanish ==
    \/ TickBegin
    \/ TickLink
    \/ TickAgents
    \/ DeleteLocalUser

SpecVanish == InitVanish /\ [][NextVanish]_vars

\* ------------------------------------------------ the reading of a link
\* What api.get_user answers for one remote name: the used_traffic of the
\* remote user, or NoReading for (None, err) and for a raised exception.
GetUserAnswers == {NoReading} \cup ByteVals

RECURSIVE fetch_used_traffic_skip_failed(_)
fetch_used_traffic_skip_failed(answers) ==
    IF answers = <<>> THEN 0
    ELSE (IF Head(answers) = NoReading THEN 0 ELSE Head(answers))
            + fetch_used_traffic_skip_failed(Tail(answers))

\* fetch_used_traffic: the sum over the remote names of the link (one name,
\* or the comma-separated names of a sanaei link); None as soon as one
\* get_user fails.
RECURSIVE fetch_used_traffic(_)
fetch_used_traffic(answers) ==
    IF answers = <<>> THEN 0
    ELSE IF Head(answers) = NoReading THEN NoReading
    ELSE LET rest == fetch_used_traffic(Tail(answers))
         IN  IF rest = NoReading THEN NoReading ELSE Head(answers) + rest

\* loop(), lines 541-575: one iteration, with the get_user answers behind
\* the reading.
TickLinkFetch ==
    /\ tick.pc = "links"
    /\ tick.queue # <<>>
    /\ \E answers \in [1..1 -> GetUserAnswers] \cup [1..2 -> GetUserAnswers] :
          LET row == Head(tick.queue)
              used == fetch_used_traffic(answers)
              e == TickLinkEffect(lu, ag, links, row, used)
              rest == Tail(tick.queue)
          IN  /\ used <= MaxBytes
              /\ \A u \in Users : e.lu[u].used_bytes <= MaxBytes
              /\ e.ag.total_used_bytes <= MaxBytes
              /\ lu' = e.lu
              /\ ag' = e.ag
              /\ links' = e.links
              /\ tick' = [pc |-> IF rest = <<>> THEN "agents" ELSE "links",
                          queue |-> rest, seen |-> tick.seen \/ e.seen]
              /\ step' = [op |-> "tick_fetch", u |-> row.u, p |-> row.p,
                          answers |-> answers, arg |-> used, calls |-> e.calls]
    /\ UNCHANGED <<mult, now>>

NextFetch ==
    \/ TickBegin
    \/ TickLinkFetch
    \/ TickAgents

SpecFetch == InitUsage /\ [][NextFetch]_vars

\* ------------------------------------------------ a stalled panel call
\* A worker is inside a call to its panel.
InCall(s, i) ==
    \/ s.pc[i] = At("calling")
    \/ \E c \in Caches : s.pc[i] = InCache(c, "call")
    \/ InnerCalling(s, i) > 0

\* The steps of a worker other than the return of a panel call.
WorkerBetweenCalls(i) ==
    /\ \/ WorkerStart(i)
       \/ SanaeiSubmit(i)
       \/ InnerStart(i)
       \/ SanaeiJoin(i)
       \/ DirectCall(i)
       \/ CacheEnter(i)
       \/ CacheLookup(i)
       \/ CacheStore(i)
       \/ CacheStored(i)
       \/ WorkerReturn(i)
    /\ UNCHANGED <<lu, ag, links, mult, now, tick>>

NextStall ==
    \/ CollectRun
    \/ CollectJoin

\* The panel of the first mapping may stall: its calls return when they
\* return, or never.  Everything else keeps going.
SpecStall ==
    /\ InitRun
    /\ [][NextStall]_vars
    /\ WF_vars(WorkerBetweenCalls(1))
    /\ WF_vars(WorkerStep(2))
    /\ WF_vars(CollectJoin)

\* ------------------------------------------------------ the pool sizes
PoolRemotes == {1, 2, 4}

PoolEnvWorkers == {0, 1, 5}

\* A run of collect_links over two mappings of any kind, a sanaei mapping
\* with one, two or four remotes, FETCH_MAX_WORKERS 0, 1 or the default.
InitPool ==
    /\ lu = [u \in Users |-> IF u = "u1" THEN FreshUser ELSE AbsentUser]
    /\ ag = FreshAgent
    /\ links = InitLinks
    /\ mult = [p \in Panels |-> NoMult]
    /\ now = 0
    /\ tick = NoTransaction
    /\ \E kind \in [Tasks -> RunKinds], remotes \in [Tasks -> PoolRemotes],
          env \in PoolEnvWorkers :
          /\ \A i \in Tasks : kind[i] # "sanaei" => remotes[i] = 1
          /\ step = [op |-> "collect_run", main |-> "waiting",
                      max_workers_env |-> env, kind |-> kind, remotes |-> remotes,
                      pc |-> [i \in Tasks |-> At("queued")],
                      inner |-> [i \in Tasks |-> <<>>],
                      lock |-> [c \in Caches |-> 0]]

NextPool ==
    \/ CollectRun
    \/ CollectJoin

SpecPool == InitPool /\ [][NextPool]_vars

\* ------------------------------------------------------ the fetch caches
\* _fetch_user_cache and _fetch_links_cache are TTLCache(maxsize=256,
\* ttl=FETCH_CACHE_TTL); fetch_user and fetch_links_from_panel are wrapped
\* in cached(cache, lock).  One such function is modelled, its argument
\* tuples as CacheKeys; CacheMaxSize stands for 256.
CacheMaxSize == 2

CacheKeys == {"k1", "k2", "k3"}

CacheThreads == 1..2

CacheTtls == {0, 1, 2}

Never == -1

\* Faulty variant of Live: entries never expire.
Live_forever(entries, ttl, t) == entries

\* The entries of a cache that have not expired at time t: an entry stored
\* at time s with time-to-live ttl is served while t < s + ttl.
Live(entries, ttl, t) == SelectSeq(entries, LAMBDA e : t < e.stored + ttl)

HasKey(entries, k) == \E i \in DOMAIN entries : entries[i].k = k

EntryOf(entries, k) ==
    entries[CHOOSE i \in DOMAIN entries : entries[i].k = k]

\* TTLCache.__setitem__: expired entries go, then the oldest entries for as
\* long as the cache is full, then the new entry is appended.
RECURSIVE MakeRoom(_)
MakeRoom(entries) ==
    IF Len(entries) < CacheMaxSize THEN entries ELSE MakeRoom(Tail(entries))

ttl_setitem(entries, ttl, t, k) ==
    LET live == Live(entries, ttl, t)
        others == SelectSeq(live, LAMBDA e : e.k # k)
    IN  Append(MakeRoom(others), [k |-> k, stored |-> t])

\* cached(): with lock: return cache[k]; a miss calls the function outside
\* the lock.  step.last records the call: a hit with the time its result
\* was computed, or a backend request with the time the last result for
\* the key was computed (Never: none yet) and the number of results stored
\* since, counted up to CacheMaxSize.
CachedCall ==
    \E t \in CacheThreads, k \in CacheKeys :
        /\ step.op = "cache"
        /\ step.inflight[t] = "-"
        /\ LET live == Live(step.entries, step.ttl, now) IN
           IF HasKey(live, k)
           THEN step' = [step EXCEPT
                    !.last = [k |-> k, kind |-> "hit", at |-> now,
                              computed |-> EntryOf(live, k).stored,
                              since |-> step.since[k]]]
           ELSE step' = [step EXCEPT
                    !.inflight[t] = k,
                    !.last = [k |-> k, kind |-> "request", at |-> now,
                              computed |-> step.ledger[k],
                              since |-> step.since[k]]]
        /\ UNCHANGED <<lu, ag, links, mult, now, tick>>

\* The function returns and cached() stores the result: with lock: return
\* cache.setdefault(k, v), which prefers an entry another thread stored in
\* the meantime.
CachedReturn ==
    \E t \in CacheThreads :
        /\ step.op = "cache"
        /\ step.inflight[t] # "-"
        /\ LET k == step.inflight[t]
               live == Live(step.entries, step.ttl, now)
           IN  IF HasKey(live, k)
               THEN step' = [step EXCEPT
                        !.inflight[t] = "-",
                        !.last = [k |-> k, kind |-> "returned", at |-> now,
                                  computed |-> EntryOf(live, k).stored,
                                  since |-> step.since[k]]]
               ELSE step' = [step EXCEPT
                        !.inflight[t] = "-",
                        !.entries = ttl_setitem(step.entries, step.ttl, now, k),
                        !.ledger[k] = now,
                        !.since = [j \in CacheKeys |->
                                     IF j = k THEN 0
                                     ELSE Min(step.since[j] + 1, CacheMaxSize)],
                        !.last = [k |-> k, kind |-> "returned", at |-> now,
                                  computed |-> now, since |-> 0]]
        /\ UNCHANGED <<lu, ag, links, mult, now, tick>>

CacheClock ==
    /\ now < MaxTime
    /\ now' = now + 1
    /\ UNCHANGED <<lu, ag, links, mult, tick, step>>

InitCache ==
    /\ lu = [u \in Users |-> IF u = "u1" THEN FreshUser ELSE AbsentUser]
    /\ ag = FreshAgent
    /\ links = InitLinks
    /\ mult = [p \in Panels |-> NoMult]
    /\ now = 0
    /\ tick = Idle
    /\ \E ttl \in CacheTtls :
          step = [op |-> "cache", ttl |-> ttl, entries |-> <<>>,
                  inflight |-> [t \in CacheThreads |-> "-"],
                  ledger |-> [k \in CacheKeys |-> Never],
                  since |-> [k \in CacheKeys |-> 0],
                  last |-> [k |-> "-", kind |-> "none", at |-> 0,
                            computed |-> Never, since |-> 0]]

NextCache ==
    \/ CachedCall
    \/ CachedReturn
    \/ CacheClock

SpecCache == InitCache /\ [][NextCache]_vars

\* ------------------------------------------------ the ratio suffix as text
\* maybe_append_ratio_to_name on the text of a link.  A link is
\* [scheme, text]: text is the characters after the scheme prefix, or, for
\* vmess, the base64 text, <<>> when there is none and else one record
\* [special, pad, payload]: special says which characters outside
\* letters and digits the text holds ("std" for + or /, "url" for - or _),
\* pad whether it holds '=', payload what it decodes to.  "%20" and "%23"
\* are the percent escapes of the blank and of '#'.
MaxChars == 3

FragChars == {"A", Blank, "%20", "#", "2", "X"}

\* f"{float(ratio):g}X" for a ratio in halves.
ratio_chars(r) ==
    CASE r = 1 -> <<"0", ".", "5", "X">>
      [] r = 2 -> <<"1", "X">>
      [] r = 3 -> <<"1", ".", "5", "X">>
      [] OTHER -> <<"2", "X">>

\* urllib.parse.unquote and quote(name, safe='') on the characters above.
unquote(cs) ==
    [i \in 1..Len(cs) |->
        IF cs[i] = "%20" THEN Blank ELSE IF cs[i] = "%23" THEN "#" ELSE cs[i]]

quote(cs) ==
    [i \in 1..Len(cs) |->
        IF cs[i] = Blank THEN "%20" ELSE IF cs[i] = "#" THEN "%23" ELSE cs[i]]

EndsWith(cs, suffix) ==
    /\ Len(cs) >= Len(suffix)
    /\ SubSeq(cs, Len(cs) - Len(suffix) + 1, Len(cs)) = suffix

\* link.find("#"), counted from 1; 0 when there is none.
FindHash(cs) ==
    IF \E i \in DOMAIN cs : cs[i] = "#"
    THEN CHOOSE i \in DOMAIN cs : cs[i] = "#" /\ \A j \in 1..(i - 1) : cs[j] # "#"
    ELSE 0

\* Faulty variant of has_ratio_suffix: the suffix is never recognized.
has_ratio_suffix_never(name, text) == FALSE

\* name.rstrip().endswith(ratio_text)
has_ratio_suffix(name, text) == EndsWith(RStrip(name, Blank), text)

\* base64 of the new payload, in the alphabet of the old text; enc says what
\* the new bytes give: a character outside letters and digits, padding.
b64encode(payload, old, enc) ==
    [special |-> IF enc.special THEN (IF old.special = "url" THEN "url" ELSE "std")
                 ELSE "none",
     pad |-> enc.pad /\ old.pad,
     payload |-> payload]

\* The vmess branch: decode, json.loads, obj.get("ps"); any exception gives
\* the link back.
append_ratio_vmess(link, text, enc) ==
    IF link.text = <<>> THEN link
    ELSE LET b64 == link.text[1]
             obj == b64.payload
         IN  IF obj.kind # "object" \/ obj.ps = <<>> THEN link
             ELSE IF has_ratio_suffix(obj.ps[1], text) THEN link
             ELSE [scheme |-> "vmess://",
                   text |-> <<b64encode([obj EXCEPT !.ps = <<obj.ps[1] \o <<Blank>> \o text>>],
                                        b64, enc)>>]

\* The fragment branch.
append_ratio_fragment(link, text) ==
    LET i == FindHash(link.text) IN
    IF i = 0 THEN link
    ELSE LET name == unquote(SubSeq(link.text, i + 1, Len(link.text))) IN
         IF has_ratio_suffix(name, text) THEN link
         ELSE [link EXCEPT !.text = SubSeq(link.text, 1, i)
                                       \o quote(name \o <<Blank>> \o text)]

\* maybe_append_ratio_to_name(link, ratio, enabled), ratio in halves.
maybe_append_ratio_to_link(link, ratio, enabled, enc) ==
    IF ~enabled THEN link
    ELSE IF ratio = 2 THEN link
    ELSE IF Lower(link.scheme) \notin {"vless://", "vmess://", "ss://"} THEN link
    ELSE IF Lower(link.scheme) = "vmess://"
    THEN append_ratio_vmess(link, ratio_chars(ratio), enc)
    ELSE append_ratio_fragment(link, ratio_chars(ratio))

\* The function applied to a link, and again to what it returned.
AppendRatio ==
    /\ step.op = "ratio_request"
    /\ \E enc1 \in [special : BOOLEAN, pad : BOOLEAN],
          enc2 \in [special : BOOLEAN, pad : BOOLEAN] :
          LET once == maybe_append_ratio_to_link(step.link, step.ratio, step.enabled, enc1)
              twice == maybe_append_ratio_to_link(once, step.ratio, step.enabled, enc2)
          IN  step' = [op |-> "append_ratio", link |-> step.link, ratio |-> step.ratio,
                       enabled |-> step.enabled, once |-> once, twice |-> twice]
    /\ UNCHANGED <<lu, ag, links, mult, now, tick>>

Payloads ==
    {[kind |-> "garbage", ps |-> <<>>], [kind |-> "list", ps |-> <<>>],
     [kind |-> "object", ps |-> <<>>]}
        \cup {[kind |-> "object", ps |-> <<n>>] :
                 n \in {<<"A">>, <<"A", Blank, "2", "X">>, <<"2", "X", Blank>>,
                        <<"A", "2">>, <<>>}}

VmessLinks ==
    {[scheme |-> "vmess://", text |-> <<>>]}
        \cup {[scheme |-> "vmess://",
                text |-> <<[special |-> sp, pad |-> pad, payload |-> pl]>>] :
                 sp \in {"none", "std", "url"}, pad \in BOOLEAN, pl \in Payloads}

FragmentLinks ==
    {[scheme |-> sc, text |-> t] :
        sc \in {"vless://", "VLESS://", "ss://", "trojan://"},
        t \in UNION {[1..n -> FragChars] : n \in 0..MaxChars}}

RatioVals == {1, 2, 4}

InitRatio ==
    /\ lu = [u \in Users |-> FreshUser]
    /\ ag = FreshAgent
    /\ links = InitLinks
    /\ mult = [p \in Panels |-> NoMult]
    /\ now = 0
    /\ tick = Idle
    /\ \E link \in VmessLinks \cup FragmentLinks, ratio \in RatioVals,
          enabled \in BOOLEAN :
          step = [op |-> "ratio_request", link |-> link, ratio |-> ratio,
                  enabled |-> enabled]

NextRatio == AppendRatio

SpecRatio == InitRatio /\ [][NextRatio]_vars

\* ------------------------------------------- comma-joined sanaei identities
\* remote_username.split(",") for a sanaei link, the one name as it stands
\* for any other type.  The names are written by ",".join(remote_names).
Remotes(type, names) == IF type = "sanaei" THEN names ELSE <<names>>

\* Faulty variant of disable_remote: the code of the last call is returned.
disable_remote_last_wins(type, remotes, answers) ==
    [called |-> remotes,
     code |-> IF remotes = <<>> THEN 200
              ELSE remote_code(type, answers[Len(remotes)])]

\* usage_sync.disable_remote: api.disable_remote_user for every remote, in
\* order; 200 when all of them went through, None (0 here) otherwise.
RECURSIVE disable_remote(_, _, _)
disable_remote(type, remotes, answers) ==
    IF remotes = <<>> THEN [called |-> <<>>, code |-> 200]
    ELSE LET ok == remote_code(type, Head(answers)) = 200
             rest == disable_remote(type, Tail(remotes), Tail(answers))
         IN  [called |-> <<Head(remotes)>> \o rest.called,
              code |-> IF ok /\ rest.code = 200 THEN 200 ELSE 0]

\* usage_sync.enable_remote: the same loop over api.enable_remote_user.
RECURSIVE enable_remote(_, _, _)
enable_remote(type, remotes, answers) ==
    IF remotes = <<>> THEN [called |-> <<>>, code |-> 200]
    ELSE LET ok == remote_code(type, Head(answers)) = 200
             rest == enable_remote(type, Tail(remotes), Tail(answers))
         IN  [called |-> <<Head(remotes)>> \o rest.called,
              code |-> IF ok /\ rest.code = 200 THEN 200 ELSE 0]

\* The reading, the Disable and the Enable of one link, on a panel that
\* answers each call as the request in step says.
LinkCalls ==
    /\ step.op = "link_calls_request"
    /\ LET remotes == Remotes(step.type, step.names) IN
       step' = [op |-> "link_calls", type |-> step.type, names |-> step.names,
                usage |-> step.usage, off |-> step.off, on |-> step.on,
                reading |-> fetch_used_traffic(step.usage),
                disable |-> disable_remote(step.type, remotes, step.off),
                enable |-> enable_remote(step.type, remotes, step.on)]
    /\ UNCHANGED <<lu, ag, links, mult, now, tick>>

SubIdentities == <<"u1", "u1b">>

InitLinkCalls ==
    /\ lu = [u \in Users |-> FreshUser]
    /\ ag = FreshAgent
    /\ links = InitLinks
    /\ mult = [p \in Panels |-> NoMult]
    /\ now = 0
    /\ tick = Idle
    /\ \E n \in 1..Len(SubIdentities) :
       \E usage \in [1..n -> GetUserAnswers], off \in [1..n -> PushAnswers],
          on \in [1..n -> PushAnswers] :
          step = [op |-> "link_calls_request", type |-> "sanaei",
                  names |-> SubSeq(SubIdentities, 1, n),
                  usage |-> usage, off |-> off, on |-> on]

NextLinkCalls == LinkCalls

SpecLinkCalls == InitLinkCalls /\ [][NextLinkCalls]_vars

\* ------------------------------------------------------------------------
\* The sync loop one statement at a time around add_usage and update_last,
\* with the failure that can come between them. step keeps the books of the
\* scenario: step.base, the baseline every link started with, and step.added,
\* what add_usage was called with on behalf of each link.
Books(base, added) ==
    [op |-> "books", u |-> "-", html |-> FALSE, arg |-> 0, calls |-> <<>>,
     base |-> base, added |-> added]

\* loop(), line 539: fetch_all_links() at the start of a tick.
LoopFetchLinks ==
    /\ tick.pc = "idle"
    /\ LET rows == fetch_all_links(links, mult) IN
       tick' = [pc |-> IF rows = <<>> THEN "agents" ELSE "links",
                queue |-> rows, seen |-> FALSE]
    /\ UNCHANGED <<lu, ag, links, mult, now, step>>

\* The loop's position after an iteration that raised: the except clause of
\* lines 582-584 is outside the for loop, so the tick is over.
LoopRowDone(t) == Idle

\* loop(), lines 541-565: the reading and, for a positive delta, add_usage
\* (committed when it returns). The panel counter never goes back here.
LoopAddUsage ==
    /\ tick.pc = "links"
    /\ tick.queue # <<>>
    /\ \E used \in {NoReading} \cup ByteVals :
          LET row == Head(tick.queue)
              key == <<row.u, row.p>>
              last == row.last_used_traffic
              delta == raw_delta(used, last)
              wd == weighted_delta(delta, row.usage_multiplier)
              rest == Tail(tick.queue)
              after == [pc |-> IF rest = <<>> THEN "agents" ELSE "links",
                        queue |-> rest, seen |-> tick.seen]
          IN  /\ used = NoReading \/ used >= last
              /\ IF used = NoReading
                 THEN /\ tick' = after
                      /\ UNCHANGED <<lu, ag, step>>
                 ELSE IF delta = 0
                 THEN /\ lu' = SyncEvaluateUser(lu, links, row.u).lu
                      /\ tick' = [after EXCEPT !.seen = TRUE]
                      /\ UNCHANGED <<ag, step>>
                 ELSE LET e == add_usage(lu, ag, row.u, wd) IN
                      /\ \A u \in Users : e.lu[u].used_bytes <= MaxBytes
                      /\ e.ag.total_used_bytes <= MaxBytes
                      /\ lu' = e.lu
                      /\ ag' = e.ag
                      /\ tick' = [pc |-> "added", queue |-> tick.queue,
                                  seen |-> tick.seen, used |-> used]
                      /\ step' = [step EXCEPT !.added[key] = @ + wd]
    /\ UNCHANGED <<links, mult, now>>

\* loop(), lines 566-572: update_last, then the subscriber evaluation.
LoopUpdateLast ==
    /\ tick.pc = "added"
    /\ LET row == Head(tick.queue)
           rest == Tail(tick.queue)
       IN  /\ links' = update_last(links, <<row.u, row.p>>, tick.used)
           /\ lu' = SyncEvaluateUser(lu, links', row.u).lu
           /\ tick' = [pc |-> IF rest = <<>> THEN "agents" ELSE "links",
                       queue |-> rest, seen |-> TRUE]
    /\ UNCHANGED <<ag, mult, now, step>>

\* update_last raises (its connection or its statement fails): the exception
\* leaves the for loop and is logged at lines 582-584.
LoopUpdateLastFails ==
    /\ tick.pc = "added"
    /\ tick' = LoopRowDone(tick)
    /\ UNCHANGED <<lu, ag, links, mult, now, step>>

\* loop(), lines 578-580.
LoopAgents ==
    /\ tick.pc = "agents"
    /\ LET e == IF tick.seen THEN SyncEvaluateAgent(lu, ag, links, now)
                ELSE NoAgentEffect(lu, ag)
       IN  /\ lu' = e.lu
           /\ ag' = e.ag
    /\ tick' = Idle
    /\ UNCHANGED <<links, mult, now, step>>

\* One subscriber on two panels of multiplier 1.0 (2 halves), any baselines.
InitInterrupt ==
    /\ \E limit \in ByteVals, base \in [DOMAIN InitLinks -> 0..1] :
          /\ lu = [u \in Users |-> IF u = "u1"
                                    THEN [FreshUser EXCEPT !.plan_limit_bytes = limit]
                                    ELSE AbsentUser]
          /\ links = base
          /\ step = Books(base, [k \in DOMAIN InitLinks |-> 0])
    /\ ag = FreshAgent
    /\ mult = [p \in Panels |-> 2]
    /\ now = 0
    /\ tick = Idle

NextInterrupt ==
    \/ LoopFetchLinks
    \/ LoopAddUsage
    \/ LoopUpdateLast
    \/ LoopUpdateLastFails
    \/ LoopAgents

SpecInterrupt == InitInterrupt /\ [][NextInterrupt]_vars

\* ------------------------------------------------------------------------
\* Whole ticks from any stored state, the tick keeping in step what it owes:
\* step.owed, the subscribers that were over their limit and not yet disabled
\* when the tick read the link rows, and step.calls, every remote call the
\* tick has made so far.
Owed(l, lk, u) ==
    /\ l[u].present
    /\ LinksOf(lk, u) # {}
    /\ l[u].manual_disabled = 0
    /\ OverLimit(l[u].plan_limit_bytes, l[u].used_bytes)
    /\ l[u].disabled_pushed = 0

\* loop(), line 539.
EnforceBegin ==
    /\ tick.pc = "idle"
    /\ LET rows == fetch_all_links(links, mult) IN
       tick' = [pc |-> IF rows = <<>> THEN "agents" ELSE "links",
                queue |-> rows, seen |-> FALSE]
    /\ step' = [op |-> "tick_begin", u |-> "-", html |-> FALSE, arg |-> 0,
                calls |-> <<>>, owed |-> {u \in Users : Owed(lu, links, u)}]
    /\ UNCHANGED <<lu, ag, links, mult, now>>

\* loop(), lines 541-575: one iteration, with any reading or none.
EnforceLink ==
    /\ tick.pc = "links"
    /\ tick.queue # <<>>
    /\ \E used \in {NoReading} \cup ByteVals :
          LET row == Head(tick.queue)
              e == TickLinkEffect(lu, ag, links, row, used)
              rest == Tail(tick.queue)
          IN  /\ \A u \in Users : e.lu[u].used_bytes <= MaxBytes
              /\ e.ag.total_used_bytes <= MaxBytes
              /\ lu' = e.lu
              /\ ag' = e.ag
              /\ links' = e.links
              /\ tick' = [pc |-> IF rest = <<>> THEN "agents" ELSE "links",
                          queue |-> rest, seen |-> tick.seen \/ e.seen]
              /\ step' = [step EXCEPT !.op = "tick_link", !.arg = used,
                                      !.calls = @ \o e.calls]
    /\ UNCHANGED <<mult, now>>

\* loop(), lines 577-584: the agent evaluations; the tick is over.
EnforceAgents ==
    /\ tick.pc = "agents"
    /\ LET e == IF tick.seen THEN SyncEvaluateAgent(lu, ag, links, now)
                ELSE NoAgentEffect(lu, ag)
       IN  /\ lu' = e.lu
           /\ ag' = e.ag
           /\ step' = [step EXCEPT !.op = "tick_end", !.calls = @ \o e.calls]
    /\ tick' = Idle
    /\ UNCHANGED <<links, mult, now>>

\* Any stored subscriber row and link baselines: the operator may have lowered
\* a limit since the last tick.
InitEnforce ==
    /\ \E limit \in ByteVals, used \in ByteVals, pushed \in Bit, manual \in Bit,
          base \in [DOMAIN InitLinks -> 0..1] :
          /\ lu = [u \in Users |->
                      IF u = "u1"
                      THEN [FreshUser EXCEPT !.plan_limit_bytes = limit,
                                             !.used_bytes = used,
                                             !.disabled_pushed = pushed,
                                             !.manual_disabled = manual]
                      ELSE AbsentUser]
          /\ ag = [FreshAgent EXCEPT !.total_used_bytes = used]
          /\ links = base
    /\ mult = [p \in Panels |-> NoMult]
    /\ now = 0
    /\ tick = Idle
    /\ step = [op |-> "init", u |-> "-", html |-> FALSE, arg |-> 0,
               calls |-> <<>>, owed |-> {}]

NextEnforce ==
    \/ EnforceBegin
    \/ EnforceLink
    \/ EnforceAgents

SpecEnforce == InitEnforce /\ [][NextEnforce]_vars

\* ------------------------------------------------------------------------
\* Link collection from three reachable panels, the third of which may be a
\* sanaei panel with two identities, under any disabled ordinals per panel
\* and no disabled names.
OrdinalSets == {{}, {1}, {2}}

InitOrder ==
    /\ lu = [u \in Users |-> FreshUser]
    /\ ag = FreshAgent
    /\ links = InitLinks
    /\ mult = [p \in Panels |-> NoMult]
    /\ now = 0
    /\ tick = Idle
    /\ \E type \in {"marzneshin", "rebecca"}, third \in {"marzneshin", "sanaei"},
          want_html \in BOOLEAN,
          nums \in [{MappedPanels[i] : i \in DOMAIN MappedPanels} -> OrdinalSets] :
          step = CollectRequest([i \in DOMAIN MappedPanels |->
                                    MappedRow(i, IF i = Len(MappedPanels) THEN third ELSE type,
                                              "up")],
                                want_html, NoFilters, nums)

SpecOrder == InitOrder /\ [][NextCollect]_vars

\* ============================================================ properties
\* Steps that run the subscriber evaluation for step.u: a sync-loop
\* iteration that reached the evaluators, or a link request.
EvalOps == {"tick_link", "link_request"}

\* Steps of the sync loop.
TickOps == {"tick_begin", "tick_link", "tick_agents"}

EnablesIn(calls, u) ==
    \E i \in 1..Len(calls) : calls[i].op = "Enable" /\ calls[i].u = u

CalledOn(o, calls, u, p) ==
    \E i \in 1..Len(calls) : calls[i].op = o /\ calls[i].u = u /\ calls[i].p = p

\* The subscriber's byte or expiry condition, on row r at time t.
UserBlocked(r, t) ==
    OverLimit(r.plan_limit_bytes, r.used_bytes) \/ Expired(r.expire_at, t)

\* ----------------------------------------------------------------- C1
\* The same evaluation (a sync iteration for u, or a link request for u with
\* the same want_html) ran in the previous step and runs again now, and this
\* step accumulates no usage for u.
SameEvaluationTwice ==
    /\ step.op \in EvalOps
    /\ step.u \in Users
    /\ step'.op = step.op
    /\ step'.u = step.u
    /\ step'.html = step.html
    /\ lu'[step.u].used_bytes = lu[step.u].used_bytes

\* C1: evaluating the same subscriber twice in succession, with no change
\* to used_bytes, limits, expiry or manual_disabled in between, issues no
\* Disable or Enable call in the second evaluation and leaves
\* disabled_pushed unchanged.
C1_SecondEvaluationIsSilent ==
    [][SameEvaluationTwice =>
          /\ step'.calls = <<>>
          /\ lu'[step.u].disabled_pushed = lu[step.u].disabled_pushed]_vars

\* A sync iteration evaluated u1, over its limit and already pushed, and
\* issued nothing.
C1_Witness ==
    /\ step.op = "tick_link"
    /\ step.u = "u1"
    /\ step.calls = <<>>
    /\ lu["u1"].manual_disabled = 0
    /\ lu["u1"].disabled_pushed = 1
    /\ OverLimit(lu["u1"].plan_limit_bytes, lu["u1"].used_bytes)

\* ----------------------------------------------------------------- C2
\* C2: no step of the sync loop decreases a subscriber's used_bytes or the
\* agent's total_used_bytes.
C2_TickNeverDecreasesCounters ==
    [][step'.op \in TickOps =>
          /\ \A u \in Users : lu'[u].used_bytes >= lu[u].used_bytes
          /\ ag'.total_used_bytes >= ag.total_used_bytes]_vars

\* A sync iteration got a reading below the stored baseline (a counter
\* reset on the panel) while the subscriber had accumulated usage.
C2_Witness ==
    /\ step.op = "tick_link"
    /\ step.arg # NoReading
    /\ step.u = "-"
    /\ lu["u1"].used_bytes > 0
    /\ ag.total_used_bytes > 0

\* ----------------------------------------------------------------- C3
\* C3: when a link's reading exceeds its baseline by d > 0 and the panel's
\* stored multiplier is m >= 0, the iteration adds exactly round(d * m) to
\* the subscriber's used_bytes and to the agent's total_used_bytes.
C3_AddsRoundedWeightedDelta ==
    [][(step'.op = "tick_link" /\ tick.queue # <<>>) =>
          LET row == Head(tick.queue)
              d == step'.arg - row.last_used_traffic
              m == row.usage_multiplier
          IN  (step'.arg # NoReading /\ d > 0 /\ m # NoMult /\ m >= 0) =>
                 /\ lu'[row.u].used_bytes = lu[row.u].used_bytes + RoundHalves(d * m)
                 /\ ag'.total_used_bytes = ag.total_used_bytes + RoundHalves(d * m)]_vars

\* ----------------------------------------------------------------- C4
\* C4: while a subscriber's manual_disabled flag is set, no step clears its
\* disabled_pushed flag and no evaluation (sync iteration, agent
\* evaluation, link request) sends Enable for it; only a step that clears
\* manual_disabled can.
C4_ManualDisableIsSticky ==
    [][\A u \in Users :
          (lu[u].present /\ lu[u].manual_disabled = 1 /\ lu'[u].manual_disabled = 1) =>
             /\ lu'[u].disabled_pushed >= lu[u].disabled_pushed
             /\ ~EnablesIn(step'.calls, u)]_vars

\* A sync iteration evaluated u1 while it was manually disabled, under its
\* limit and not expired.
C4_Witness ==
    /\ step.op = "tick_link"
    /\ step.u = "u1"
    /\ lu["u1"].manual_disabled = 1
    /\ lu["u1"].disabled_pushed = 1
    /\ ~UserBlocked(lu["u1"], now)

\* ----------------------------------------------------------------- C5
\* This step runs an agent-level evaluation: the end of a tick that saw the
\* owner, sync_agent_now after a quota edit, or the agent gate of a link
\* request for an existing subscriber.
AgentEvaluationRuns ==
    \/ step'.op = "tick_agents" /\ tick.seen
    \/ step'.op = "set_agent_quota"
    \/ step'.op = "link_request" /\ lu[step'.u].present

\* The agents row that evaluation reads.
AgentRowEvaluated ==
    IF step'.op = "set_agent_quota"
    THEN [ag EXCEPT !.plan_limit_bytes = step'.arg]
    ELSE ag

\* C5: an agent-level evaluation that finds total_used_bytes >= limit > 0
\* while the agent's disabled_pushed is 0 leaves the agent with
\* disabled_pushed = 1 and every subscriber that is not manual_disabled in
\* Disabled(pushed): disabled_pushed = 1 and Disable sent on each of its links.
C5_AgentCascadeDisablesAll ==
    [][(/\ AgentEvaluationRuns
        /\ AgentRowEvaluated.active = 1
        /\ AgentRowEvaluated.disabled_pushed = 0
        /\ OverLimit(AgentRowEvaluated.plan_limit_bytes,
                     AgentRowEvaluated.total_used_bytes)) =>
          /\ ag'.disabled_pushed = 1
          /\ \A u \in Users :
                (lu'[u].present /\ lu'[u].manual_disabled = 0) =>
                   /\ lu'[u].disabled_pushed = 1
                   /\ \A p \in LinksOf(links, u) :
                         CalledOn("Disable", step'.calls, u, p)]_vars

\* ----------------------------------------------------------------- C6
\* C6: while the agent is cascaded (disabled_pushed = 1) and still over its
\* limit or expired, no sync step and no link request sends Enable for, or
\* clears disabled_pushed of, a subscriber that is in Disabled(pushed).
C6_NoEnableWhileAgentBlocked ==
    [][(/\ ag.active = 1
        /\ ag.disabled_pushed = 1
        /\ AgentBlocked(ag, now)
        /\ step'.op \in TickOps \cup {"link_request"}) =>
          \A u \in Users :
             (lu[u].present /\ lu[u].disabled_pushed = 1) =>
                /\ lu'[u].disabled_pushed = 1
                /\ ~EnablesIn(step'.calls, u)]_vars

\* ----------------------------------------------------------------- C7
\* This step is an agent recovery: a sync agent evaluation that clears the
\* agent's disabled_pushed.
AgentRecovers ==
    /\ step'.op \in {"tick_agents", "set_agent_quota"}
    /\ ag.disabled_pushed = 1
    /\ ag'.disabled_pushed = 0

\* C7: an agent recovery sends no Enable for a subscriber whose
\* manual_disabled flag is set and leaves that subscriber's disabled_pushed
\* as it was.
C7_RecoverySkipsManual ==
    [][AgentRecovers =>
          \A u \in Users :
             (lu[u].present /\ lu[u].manual_disabled = 1) =>
                /\ ~EnablesIn(step'.calls, u)
                /\ lu'[u].disabled_pushed = lu[u].disabled_pushed]_vars

\* An agent recovery has just re-enabled u2 while u1 is manually disabled.
C7_Witness ==
    /\ step.op \in {"tick_agents", "set_agent_quota"}
    /\ ag.disabled_pushed = 0
    /\ EnablesIn(step.calls, "u2")
    /\ lu["u1"].manual_disabled = 1
    /\ lu["u1"].disabled_pushed = 1

\* ----------------------------------------------------------------- C8
\* This step evaluates subscriber u: a sync iteration that reached the
\* evaluators, or a link request that got past the agent gate.
SubscriberEvaluated(u) ==
    /\ step'.op \in EvalOps
    /\ step'.u = u
    /\ lu[u].present
    /\ step'.op = "link_request" => (step'.html \/ ~GateBlocked(ag, now))

\* C8: a subscriber evaluation that finds manual_disabled = 1, or
\* used >= limit > 0, or expire_at <= now, while disabled_pushed = 0, sends
\* Disable on every link of the subscriber and sets disabled_pushed = 1.
C8_BlockedSubscriberIsDisabled ==
    [][\A u \in Users :
          (/\ SubscriberEvaluated(u)
           /\ lu[u].disabled_pushed = 0
           /\ (lu'[u].manual_disabled = 1 \/ UserBlocked(lu'[u], now))) =>
             /\ lu'[u].disabled_pushed = 1
             /\ \A p \in LinksOf(links, u) :
                   CalledOn("Disable", step'.calls, u, p)]_vars

\* ----------------------------------------------------------------- C9
\* C9: a subscriber evaluation sends Enable or clears disabled_pushed only
\* when manual_disabled = 0 and neither the byte nor the expiry condition
\* holds; it then sends Enable on every link and leaves disabled_pushed = 0.
C9_EnableOnlyWhenUnblocked ==
    [][\A u \in Users :
          (/\ SubscriberEvaluated(u)
           /\ \/ EnablesIn(step'.calls, u)
              \/ lu[u].disabled_pushed = 1 /\ lu'[u].disabled_pushed = 0) =>
             /\ lu'[u].manual_disabled = 0
             /\ ~UserBlocked(lu'[u], now)
             /\ lu'[u].disabled_pushed = 0
             /\ \A p \in LinksOf(links, u) :
                   CalledOn("Enable", step'.calls, u, p)]_vars

\* ---------------------------------------------------------------- C10
\* C10: with the persisted state frozen, any interleaving of sync ticks and
\* link requests issues finitely many Disable/Enable calls: from some point
\* on no step issues a remote call.
C10_FinitelyManyCalls == <>[][step'.calls = <<>>]_vars

C12_SecondAgentEvaluationIsSilent ==
    [][AgentEvaluationRuns =>
          LET s == SyncEvaluateAgent(lu', ag', links', now')
              g == AgentGate(ag', links', now')
          IN  /\ step'.op \in {"tick_agents", "set_agent_quota"} =>
                    (s.calls = <<>> /\ s.ag = ag' /\ s.lu = lu')
              /\ step'.op = "link_request" =>
                    (g.calls = <<>> /\ g.ag = ag')]_vars

\* sync_agent_now has just cascaded: the agent is over its limit with its
\* flag set, and Disable went out.
C12_Witness ==
    /\ step.op = "set_agent_quota"
    /\ step.calls # <<>>
    /\ ag.active = 1
    /\ ag.disabled_pushed = 1
    /\ OverLimit(ag.plan_limit_bytes, ag.total_used_bytes)
    /\ SyncEvaluateAgent(lu, ag, links, now).calls = <<>>

\* ---------------------------------------------------------------- C13
RangeOf(s) == {s[i] : i \in DOMAIN s}

\* The links a reachable panel serves to the identities of a mapping.
PanelLinks(l) ==
    IF l.panel_type = "sanaei"
    THEN UNION {RangeOf(Subscription(l, <<l.remote_username[i]>>)) :
                   i \in DOMAIN l.remote_username}
    ELSE RangeOf(Subscription(l, l.remote_username))

Unreachable(l) == l.cond \in {"down", "slow"}

Collected == step.op = "collect_links"

\* C13: when exactly one of the three mapped panels is unreachable and the
\* other two answer, collect_links returns every link of the other two
\* panels and exactly one error string, which names the failed panel; for
\* every vendor type.
C13_OneErrorForUnreachablePanel ==
    Collected =>
        LET m == step.arg.mapped
            r == step.result
        IN  \A i \in DOMAIN m :
               (Unreachable(m[i]) /\ \A j \in DOMAIN m \ {i} : m[j].cond = "up") =>
                  /\ ~r.raised
                  /\ \A j \in DOMAIN m \ {i} : PanelLinks(m[j]) \subseteq RangeOf(r.links)
                  /\ Len(r.errors) = 1
                  /\ r.errors[1].panel = m[i].panel_id

\* ---------------------------------------------------------------- C14
\* C14: whatever the panels do to the calls made to them (answer, fail or
\* time out), a submitted collection has an outcome, and the outcome is the
\* returned triple, never an exception; it holds every link of every panel
\* that answered, and every error string names a panel that did not.
C14_CollectionAlwaysReturns ==
    /\ step.op = "collect_request" => ENABLED CollectLinks
    /\ Collected =>
          LET m == step.arg.mapped
              r == step.result
          IN  /\ ~r.raised
              /\ \A j \in DOMAIN m :
                    m[j].cond = "up" => PanelLinks(m[j]) \subseteq RangeOf(r.links)
              /\ \A e \in RangeOf(r.errors) :
                    \E j \in DOMAIN m : m[j].panel_id = e.panel /\ m[j].cond # "up"

\* ---------------------------------------------------------------- C15
\* A link request that went on to query panels.
Queried == step.op = "link_request" /\ step.fetch # {}

\* C15: a link request that queries panels for a subscriber without link
\* rows queries every panel of the subscriber's owner, each under the
\* subscriber's own username; for a subscriber with link rows it queries
\* exactly the mapped panels, each under the mapped remote identity.
C15_FallbackToOwnerPanels ==
    Queried =>
        /\ LinksOf(links, step.u) = {} =>
              /\ {t[1] : t \in step.fetch} = OwnerPanels
              /\ \A t \in step.fetch : t[2] = "owner"
        /\ LinksOf(links, step.u) # {} =>
              /\ {t[1] : t \in step.fetch} = LinksOf(links, step.u)
              /\ \A t \in step.fetch : t[2] = "link"

C15_Witness ==
    /\ Queried
    /\ step.u = "u1"
    /\ LinksOf(links, "u1") = {}
    /\ step.fetch = {<<"p1", "owner">>, <<"p2", "owner">>}

\* ---------------------------------------------------------------- C16
\* A line without the blanks and quotes around its text.
Trimmed(line) == [line EXCEPT !.pre = <<>>, !.post = <<>>]

Bare(scheme, rest) == [pre |-> <<>>, scheme |-> scheme, rest |-> rest, post |-> <<>>]

\* C16: filter_dedupe returns the input lines, each trimmed of the blanks
\* and quote characters around it, keeping those whose lower-case form starts
\* with a recognized scheme, without the repetitions and in the order of
\* first occurrence; [vless://a#X, vless://a#X, ss://b#Y] gives
\* [vless://a#X, ss://b#Y].
C16_TrimFilterDedupe ==
    step.op = "filter_dedupe" =>
        /\ step.result =
              FirstOccurrences(
                  SelectSeq([i \in 1..Len(step.arg) |-> Trimmed(step.arg[i])],
                            LAMBDA ss : Lower(ss.scheme) \in ALLOWED_SCHEMES), {})
        /\ step.arg = <<Bare("vless://", "a#X"), Bare("vless://", "a#X"), Bare("ss://", "b#Y")>>
              => step.result = <<Bare("vless://", "a#X"), Bare("ss://", "b#Y")>>

\* ---------------------------------------------------------------- C17
\* The link served at position i of mapping l reached the collected links.
Survives(l, i) ==
    \E y \in RangeOf(step.result.links) : y.body[1] = l.panel_id /\ y.body[3] = i

\* The name carries a live usage annotation.
Annotated(nm) == \E k \in DOMAIN nm : nm[k] \in UsageTokens

\* C17: a served link whose fragment name carries a usage annotation does
\* not reach the collected links when the panel's stored disabled names hold
\* the same name without the annotation, both taken in canonical form.
C17_AnnotatedNameIsFiltered ==
    Collected =>
        \A j \in DOMAIN step.arg.mapped :
            LET l == step.arg.mapped[j] IN
            \A i \in DOMAIN l.served :
                (/\ l.served[i].frag
                 /\ Annotated(l.served[i].name)
                 /\ \E f \in step.arg.dn_map[l.panel_id] :
                       canonicalize_name(f)
                           = canonicalize_name(Without(l.served[i].name, UsageTokens)))
                    => ~Survives(l, i)

C17_Witness ==
    /\ Collected
    /\ LET l == step.arg.mapped[1] IN
          /\ l.served[1].frag
          /\ l.served[1].name = <<"A", "150MB/500MB">>
          /\ l.served[2].name = <<"150MB/500MB">>
          /\ step.arg.dn_map[l.panel_id] = {<<"A">>}
          /\ ~Survives(l, 1)
          /\ Survives(l, 2)

\* ---------------------------------------------------------------- C18
\* C18: with the sync loop's add_usage running beside link requests and
\* on-demand evaluations of the same rows, the committed used_bytes of the
\* subscriber and total_used_bytes of its agent are each the sum of the
\* weighted deltas of the add_usage calls that returned, and a request that
\* read both counters never holds a subscriber counter ahead of the agent
\* counter.
C18_NoLostIncrement ==
    /\ lu["u1"].used_bytes = tick.passed
    /\ ag.total_used_bytes = tick.passed
    /\ step.pc \in {"agent", "done"} =>
          step.agent.total_used_bytes >= step.row.used_bytes

C18_Witness ==
    /\ step.pc = "done"
    /\ step.during = "user_updated"
    /\ step.row.used_bytes = 0
    /\ step.agent.total_used_bytes = 1
    /\ tick.pc = "idle"
    /\ tick.passed = 2
    /\ lu["u1"].disabled_pushed = 1

\* ---------------------------------------------------------------- C19
\* C19: a run of collect_links (outer pool, inner pools of sanaei workers,
\* cache locks) beside a tick of the sync loop: when every panel call returns
\* or times out, the run reaches the end of collect_links and the sync loop
\* leaves every transaction it entered.
C19_BothComplete ==
    /\ (step.main = "waiting") ~> (step.main = "done")
    /\ (tick.pc # "idle") ~> (tick.pc = "idle")

C19_Witness ==
    /\ step.main = "waiting"
    /\ step.lock["user"] = 1
    /\ step.pc[2] = InCache("user", "returned")
    /\ InTransaction(tick)

\* ---------------------------------------------------------------- C20
\* C20: a plain-text link request stopped because the subscriber is over its
\* limit or expired, or because the agent is over its limit or expired, is
\* answered 200 with an empty body and with the four X- headers.
C20_BlockedPlainResponse ==
    (step.op = "link_request" /\ ~step.html
        /\ step.stop \in {"agent", "expired", "limit"})
    => /\ step.status = 200
       /\ step.body = "empty"
       /\ step.headers # NoHeaders

\* ---------------------------------------------------------------- C21
\* C21: after add_usage neither counter is above the ceiling, and a counter
\* whose value plus the delta was above the ceiling holds exactly the
\* ceiling.
C21_ClampAtCeiling ==
    step.op = "add_usage" =>
        /\ lu["u1"].used_bytes <= CounterCeiling
        /\ ag.total_used_bytes <= CounterCeiling
        /\ step.used_bytes + step.delta > CounterCeiling
              => lu["u1"].used_bytes = CounterCeiling
        /\ step.total_used_bytes + step.delta > CounterCeiling
              => ag.total_used_bytes = CounterCeiling

\* ---------------------------------------------------------------- C22
\* C22: with no operator change of the subscriber's limit, usage or expiry,
\* the sync loop and the link requests together send the owner at most one
\* usage-limit notification and at most one expiry notification for the
\* subscriber.
C22_OneNotification ==
    \A kind \in {"usage", "expire"} :
        Len(SelectSeq(tick.notes \o step.notes,
                      LAMBDA n : n.kind = kind /\ n.u = "u1")) <= 1

\* ---------------------------------------------------------------- C23
\* C23: a sync iteration whose reading is below the link's stored
\* last_used_traffic stores the reading as the new last_used_traffic and
\* changes no used_bytes and no total_used_bytes; every iteration with a
\* reading at or above the stored last_used_traffic adds the weighted
\* difference between the two, so that readings after a reset are measured
\* from the reading that reset the baseline.
C23_CounterResetRebaselines ==
    [][(step'.op = "tick_link" /\ tick.queue # <<>> /\ step'.arg # NoReading) =>
          LET row == Head(tick.queue)
              key == <<row.u, row.p>>
              used == step'.arg
          IN  /\ row.last_used_traffic = links[key]
              /\ used < links[key] =>
                    /\ links'[key] = used
                    /\ \A u \in Users : lu'[u].used_bytes = lu[u].used_bytes
                    /\ ag'.total_used_bytes = ag.total_used_bytes
              /\ used >= links[key] =>
                    /\ links'[key] = used
                    /\ lu'[row.u].used_bytes - lu[row.u].used_bytes
                          = weighted_delta(used - links[key], row.usage_multiplier)
                    /\ ag'.total_used_bytes - ag.total_used_bytes
                          = weighted_delta(used - links[key], row.usage_multiplier)]_vars

\* The panel p1 was read at 1, then below it at 0, then at 1 again: two bytes
\* are counted although the panel's counter stands at 1.
C23_Witness ==
    /\ step.op = "tick_link"
    /\ step.arg = 1
    /\ tick.pc = "links"
    /\ links[<<"u1", "p1">>] = 1
    /\ links[<<"u1", "p2">>] = 0
    /\ mult["p1"] = NoMult
    /\ lu["u1"].used_bytes = 2
    /\ ag.total_used_bytes = 2

C25_BestEffortBroadcast ==
    (step.op = "evaluate_push" /\ step.calls # <<>>) =>
        /\ [i \in DOMAIN step.sent |-> step.sent[i].call]
              = CallsOn(step.calls[1].op, step.u, LinksOf(links, step.u), "link")
        /\ lu[step.u].disabled_pushed = IF step.calls[1].op = "Disable" THEN 1 ELSE 0

\* The Disable call to the first panel failed, the one to the second panel
\* went through, and the flag is set.
C25_Witness ==
    /\ step.op = "evaluate_push"
    /\ Len(step.sent) = 2
    /\ step.sent[1].call.op = "Disable"
    /\ step.sent[1].code # 200
    /\ step.sent[2].code = 200
    /\ lu["u1"].disabled_pushed = 1

\* ---------------------------------------------------------------- C26
\* C26: a sync iteration over a link whose subscriber row is gone changes
\* no used_bytes and not the agent's total_used_bytes, issues no remote
\* call, and the tick goes on with the links that are left.
C26_VanishedSubscriberIsSkipped ==
    [][(step'.op = "tick_link" /\ tick.queue # <<>>
            /\ ~lu[Head(tick.queue).u].present) =>
          /\ \A u \in Users : lu'[u].used_bytes = lu[u].used_bytes
          /\ ag'.total_used_bytes = ag.total_used_bytes
          /\ step'.calls = <<>>
          /\ tick'.queue = Tail(tick.queue)]_vars

\* ---------------------------------------------------------------- C27
\* C27: a sync iteration in which a get_user call for the link failed
\* leaves the link's last_used_traffic, the subscriber's used_bytes and
\* the agent's total_used_bytes as they were, and the tick moves on to the
\* rest of its links.
C27_FailedReadingChangesNothing ==
    [][(step'.op = "tick_fetch"
            /\ \E i \in DOMAIN step'.answers : step'.answers[i] = NoReading) =>
          /\ links' = links
          /\ lu'[step'.u].used_bytes = lu[step'.u].used_bytes
          /\ ag'.total_used_bytes = ag.total_used_bytes
          /\ tick'.queue = Tail(tick.queue)
          /\ tick'.pc = IF tick'.queue = <<>> THEN "agents" ELSE "links"]_vars

\* A two-name link whose second get_user failed after the first one had
\* answered new traffic, with another link still to process.
C27_Witness ==
    /\ step.op = "tick_fetch"
    /\ Len(step.answers) = 2
    /\ step.answers[1] > 0
    /\ step.answers[2] = NoReading
    /\ tick.queue # <<>>
    /\ \E k \in DOMAIN links : links[k] > 0

C29_PoolBounds ==
    step.op = "collect_run" =>
        LET m == Min(step.max_workers_env, Len(RunMapped))
            bound == IF m < 1 THEN 1 ELSE m
        IN  /\ Cardinality({i \in Tasks :
                    step.pc[i].at \notin {"queued", "done"}}) <= bound
            /\ \A i \in Tasks :
                    Cardinality({j \in DOMAIN step.inner[i] :
                        step.inner[i][j] = "calling"}) <= 3

\* Both bounds are met: two workers hold threads of a pool of two, three
\* remote workers of a four-remote sanaei mapping are calling and the
\* fourth is queued.
C29_Witness ==
    /\ step.op = "collect_run"
    /\ step.max_workers_env = 5
    /\ \A i \in Tasks : step.pc[i].at \notin {"queued", "done"}
    /\ \E i \in Tasks :
          /\ Len(step.inner[i]) = 4
          /\ Cardinality({j \in 1..4 : step.inner[i][j] = "calling"}) = 3
          /\ \E j \in 1..4 : step.inner[i][j] = "queued"

C31_OrdinalsArePositional ==
    Collected =>
        \A j \in DOMAIN step.arg.mapped :
            LET l == step.arg.mapped[j]
                nums == step.arg.di_map[l.panel_id]
                names == load_disabled_names(step.arg.dn_map[l.panel_id])
            IN  \A i \in DOMAIN l.served :
                    /\ i \in nums => ~Survives(l, i)
                    /\ (i \notin nums
                            /\ extract_name(Subscription(l, l.remote_username)[i])
                                  \notin names)
                          => Survives(l, i)

\* ---------------------------------------------------------------- C32
\* C32: maybe_append_ratio_to_name applied to its own result, with the
\* same ratio and flag, returns that result, for vmess links and for links
\* named in the fragment; with ratio 1.0 or with the flag off it returns
\* the link it was given.
C32_AppendRatioIdempotent ==
    step.op = "append_ratio" =>
        /\ step.twice = step.once
        /\ (step.ratio = 2 \/ ~step.enabled) => step.once = step.link

\* Links the first application renamed: a vmess payload and a fragment
\* written with a blank that comes back percent-escaped.
C32_Witness ==
    /\ step.op = "append_ratio"
    /\ step.once # step.link
    /\ step.twice = step.once
    /\ \/ step.link.scheme = "vmess://"
       \/ /\ step.link.text = <<"#", "A", Blank>>
          /\ step.once.text = <<"#", "A", "%20", "%20", "2", "X">>

\* ---------------------------------------------------------------- C33
RECURSIVE SumOf(_)
SumOf(ns) == IF ns = <<>> THEN 0 ELSE Head(ns) + SumOf(Tail(ns))

\* C33: for a sanaei link with comma-joined identities the reading is the
\* sum of the identities' counters, and no reading at all when one lookup
\* failed; Disable and Enable are each called for every identity and
\* answer 200 exactly when every one of their calls went through.
C33_SanaeiAggregates ==
    (step.op = "link_calls" /\ step.type = "sanaei") =>
        LET failed == \E i \in DOMAIN step.usage : step.usage[i] = NoReading IN
        /\ failed => step.reading = NoReading
        /\ ~failed => step.reading = SumOf(step.usage)
        /\ step.disable.called = step.names
        /\ step.disable.code = 200 <=> \A i \in DOMAIN step.off : step.off[i] = "ok"
        /\ step.enable.called = step.names
        /\ step.enable.code = 200 <=> \A i \in DOMAIN step.on : step.on[i] = "ok"

\* Two identities: the first answered traffic and its Disable failed, the
\* lookup of the second failed and its Disable went through.
C33_Witness ==
    /\ step.op = "link_calls"
    /\ step.names = <<"u1", "u1b">>
    /\ step.usage = <<1, NoReading>>
    /\ step.reading = NoReading
    /\ step.off = <<"down", "ok">>
    /\ step.disable.code = 0
    /\ step.disable.called = <<"u1", "u1b">>
    /\ step.enable.code = 200

\* ---------------------------------------------------------------- C34
\* C34: an agent recovery sends no Enable for a subscriber that is over its
\* own limit or expired, and such a subscriber's disabled_pushed stays set.
C34_RecoveryKeepsBlockedDisabled ==
    [][AgentRecovers =>
          \A u \in Users :
             (lu[u].present /\ UserBlocked(lu[u], now)) =>
                /\ ~EnablesIn(step'.calls, u)
                /\ lu[u].disabled_pushed = 1 => lu'[u].disabled_pushed = 1]_vars

\* ---------------------------------------------------------------- C35
\* C35: the subscriber evaluations of the sync loop and of the link
\* requests together send at most one Disable broadcast for the subscriber,
\* whose limit is not changed and whose disabled_pushed is never cleared.
C35_OneDisableBroadcast ==
    tick.pushes + step.pushes <= 1

\* C36: between ticks, what was added to used_bytes on behalf of a link with
\* multiplier 1 whose panel counter never went back equals its
\* last_used_traffic minus the baseline it started with, also after a tick
\* that failed between add_usage and update_last.
C36_AccumulatedOnce ==
    tick.pc = "idle" =>
        \A k \in DOMAIN links : step.added[k] = links[k] - step.base[k]

\* C37: a subscriber with a link that is not manually disabled, over its
\* limit and not yet disabled when a tick starts has, at the end of that
\* tick, had Disable sent to each of its links and disabled_pushed = 1.
C37_EnforcedWithinTick ==
    step.op = "tick_end" =>
        \A u \in step.owed :
            /\ lu[u].disabled_pushed = 1
            /\ \A p \in LinksOf(links, u) :
                  \E i \in 1..Len(step.calls) :
                      /\ step.calls[i].op = "Disable"
                      /\ step.calls[i].u = u
                      /\ step.calls[i].p = p

\* ---------------------------------------------------------------- C38
\* C38: for fixed panel answers and fixed filters the links collect_links
\* returns are, as a set, the same in whatever order the workers of the
\* outer pool and of the sanaei branch's inner pool complete: the disabled
\* ordinals remove the same links in every order.
C38_CompletionOrderIsImmaterial ==
    Collected =>
        \A order \in Orders(Len(step.arg.mapped)), inner \in Orders(2) :
            RangeOf(collect_links(step.arg, order, inner).links)
                = RangeOf(step.result.links)

\* ---------------------------------------------------------------- C39
\* The subscriber row and the agent row as a link request for u finds them:
\* the subscriber manually disabled, expired or over its limit, or its
\* active agent expired or over its limit.
RequestIsBlocked(u) ==
    /\ lu[u].present
    /\ \/ lu[u].manual_disabled = 1
       \/ Expired(lu[u].expire_at, now)
       \/ OverLimit(lu[u].plan_limit_bytes, lu[u].used_bytes)
       \/ (ag.active = 1 /\ AgentBlocked(ag, now))

====
